---- MODULE Spec2Model ----
(***************************************************************************)
(* Model of the Observability Insights Service of v-commerce-studio:       *)
(* the two-tier error classifier (DatadogClient.get_quick_health_check,    *)
(* InsightsGenerator.predict_errors, the GET /insights/errors handler,     *)
(* scheduled_error_prediction) and the alert emitter (AlertSender).        *)
(*                                                                         *)
(* Units.  Rates (llm.error.rate, invalid_product_rate) and probabilities  *)
(* are counted in hundredths (0.02 is 2, 0.85 is 85); latency is counted   *)
(* in seconds.  All comparisons of the code are between a value and a      *)
(* literal, so the scaling keeps every comparison exact.                   *)
(***************************************************************************)
EXTENDS Integers, Sequences, FiniteSets, TLC

VARIABLES
    backend,    \* the metrics backend: metric key -> response of a /v1/query read
    agent,      \* main.py global `agent`: "None" until get_agent() builds it
    entry,      \* the entry point that is running, "idle" between invocations
    force,      \* force_analysis / ?force=true of the running invocation
    pc,         \* position of the running invocation
    health,     \* quick_check: the HealthCheckResult of Tier 1 in this invocation
    response,   \* what _call_gemini returned in this invocation
    alert,      \* the probability send_error_prediction was called with, if it was
    result,     \* the value returned to the caller
    outcome,    \* terminal state of the classifier state machine
    calls,      \* the outbound calls of this invocation, in program order
    thresholds, \* InsightsGenerator: the thresholds read from the environment
    last_quick, \* what the previous GET /insights/quick-check answered
    trend_in,   \* a query_metrics response whose trend is asked for
    trend_out,  \* the trend computed from trend_in, and by which function
    jobs,       \* scheduler: job id -> next_run_time, in minutes since start
    instances,  \* scheduler: job id -> number of runs of the job in progress
    clock,      \* minutes since the scheduler started
    http,       \* the request POST /scheduler/trigger is answering, if any
    skipped,    \* job ids of which the scheduler dropped a due run
    threads,    \* concurrent invocations: where each is in get_agent() and after
    tool_clients, \* observability_agent._datadog_client/_alert_sender: who bound them
    chat_in,    \* chatbot: the arguments of a scoring function
    chat_out,   \* chatbot: the score returned, as a fraction num/den
    video_jobs, \* video generation: VideoGenerator.jobs, job id -> status and operation
    operations, \* video generation: the state of each job's Veo operation
    checkers,   \* video generation: the request threads inside check_job_status
    settled,    \* video generation: the first terminal status each job reached
    cart_kind,  \* cart service: the store create_cart_store() returned
    carts,      \* InMemoryCartStore._carts: user id -> product id and quantity pairs
    redis,      \* RedisCartStore._redis: key (user id) -> serialized Cart
    cart_added, \* cart service: what each user added since the user's last empty_cart
    adders,     \* cart service: the pool threads inside RedisCartStore.add_item
    user_behavior_state, \* PEAUAgent: user id -> product id -> views and added_to_cart
    peau_out    \* PEAUAgent: the last track_user_behavior call and what it returned

\* Invocations running side by side in the insights service.
concurrentVars == <<threads, tool_clients>>

\* The scheduler of main.py.
schedulerVars == <<jobs, instances, clock, http, skipped>>

\* The other programs and threads of the repository.
\* The chatbot's scoring functions.
chatbotVars == <<chat_in, chat_out>>

\* The video generation service.
videoVars == <<video_jobs, operations, checkers, settled>>

\* The cart service.
cartVars == <<cart_kind, carts, redis, cart_added, adders>>

\* The proactive engagement agent (PEAU).
peauVars == <<user_behavior_state, peau_out>>

otherServices ==
    <<schedulerVars, concurrentVars, chatbotVars, videoVars, cartVars, peauVars>>

vars == <<backend, agent, entry, force, pc, health, response, alert, result, outcome,
          calls, thresholds, last_quick, trend_in, trend_out, otherServices>>

\* What the entry points of the classifier never assign.
restVars == <<thresholds, last_quick, trend_in, trend_out, otherServices>>

\* The observability insights service but for its scheduler.
insightsVars == <<backend, agent, entry, force, pc, health, response, alert, result,
                  outcome, calls, thresholds, last_quick, trend_in, trend_out>>

(***************************************************************************)
(* Bounds and program constants                                            *)
(***************************************************************************)
MaxPoints == 1

ErrorRateThreshold == 2
LatencyThreshold == 3
HallucinationThreshold == 2

RuleBasedProbability == 10
DefaultErrorPredictionThreshold == 2
DefaultLatencyThresholdSeconds == 3

\* main.py 48-50: minutes, hours, minutes.
ERROR_PREDICTION_INTERVAL == 5
COST_ANALYSIS_INTERVAL == 1
HEALTH_SUMMARY_INTERVAL == 15

\* BackgroundScheduler() and add_job() name no max_instances: the scheduler's
\* default of one running instance per job applies.
MaxInstances == 1

\* The clock is followed until MaxClock minutes after the start.
MaxClock == 15
EventMinProbability == 50
ErrorMinProbability == 80
WarningMinProbability == 60

MetricKeys == <<"error_rate", "latency_avg", "hallucination_rate">>

KeySet == {MetricKeys[i] : i \in 1..Len(MetricKeys)}

\* Mutant: the hallucination check compares against the latency check's literal.
ThresholdCopied(key) ==
    CASE key = "error_rate" -> ErrorRateThreshold
      [] key = "latency_avg" -> LatencyThreshold
      [] key = "hallucination_rate" -> LatencyThreshold

Threshold(key) ==
    CASE key = "error_rate" -> ErrorRateThreshold
      [] key = "latency_avg" -> LatencyThreshold
      [] key = "hallucination_rate" -> HallucinationThreshold

ConcernText(key) ==
    CASE key = "error_rate" -> "Error rate elevated"
      [] key = "latency_avg" -> "Latency elevated"
      [] key = "hallucination_rate" -> "Hallucination rate elevated"

(***************************************************************************)
(* The metrics backend as the reader sees it                               *)
(***************************************************************************)
\* A point of a pointlist: [timestamp, value], the value possibly null.
Points(key) ==
    {[none |-> TRUE, value |-> 0]}
        \cup {[none |-> FALSE, value |-> v] : v \in {Threshold(key), Threshold(key) + 1}}

PointLists(key) == UNION {[1..n -> Points(key)] : n \in 0..MaxPoints}

\* What query_metrics returns: None (the request failed), or the JSON body,
\* of which only "series" (a list of pointlists) is read.
Responses(key) ==
    {[none |-> TRUE, series |-> <<>>], [none |-> FALSE, series |-> <<>>]}
        \cup {[none |-> FALSE, series |-> <<pl>>] : pl \in PointLists(key)}

Backends == {b \in [KeySet -> UNION {Responses(k) : k \in KeySet}] :
                \A k \in KeySet : b[k] \in Responses(k)}

query_metrics(b, key) == b[key]

(***************************************************************************)
(* Tier 1: DatadogClient.get_quick_health_check                            *)
(***************************************************************************)
\* `if result and result.get("series")` followed by `if points`
HasPoints(r) == ~r.none /\ Len(r.series) > 0 /\ Len(r.series[1]) > 0

\* Mutant: a null latest value is recorded as a value above every threshold
\* instead of 0.
LatestValueNullAsHigh(r) ==
    LET points == r.series[1]
        last == points[Len(points)]
    IN  IF last.none THEN LatencyThreshold + 1 ELSE last.value

\* points[-1][1] if points[-1][1] is not None else 0
LatestValue(r) ==
    LET points == r.series[1]
        last == points[Len(points)]
    IN  IF last.none THEN 0 ELSE last.value

\* Mutant: the comparison made inclusive.
BreachesAtThreshold(key, latest) == latest >= Threshold(key)

Breaches(key, latest) == latest > Threshold(key)

EmptyHealth == [needs_deep_analysis |-> FALSE, concerns |-> <<>>, metrics |-> {}]

\* Mutant: a metric without points is recorded as 0 instead of being skipped.
CheckMetricAbsentAsZero(h, key, r) ==
    LET latest == IF HasPoints(r) THEN LatestValue(r) ELSE 0
    IN  [needs_deep_analysis |-> h.needs_deep_analysis \/ Breaches(key, latest),
         concerns |-> IF Breaches(key, latest)
                      THEN Append(h.concerns,
                                  [metric |-> key, text |-> ConcernText(key),
                                   value |-> latest])
                      ELSE h.concerns,
         metrics |-> h.metrics \cup {<<key, latest>>}]

CheckMetric(h, key, r) ==
    IF HasPoints(r)
    THEN LET latest == LatestValue(r)
         IN  [needs_deep_analysis |-> h.needs_deep_analysis \/ Breaches(key, latest),
              concerns |-> IF Breaches(key, latest)
                           THEN Append(h.concerns,
                                       [metric |-> key, text |-> ConcernText(key),
                                        value |-> latest])
                           ELSE h.concerns,
              metrics |-> h.metrics \cup {<<key, latest>>}]
    ELSE h

\* Mutant: the first failed read ends the quick check; later metrics are not read.
RECURSIVE CheckMetricsStopOnFailure(_, _, _)
CheckMetricsStopOnFailure(h, b, i) ==
    IF i > Len(MetricKeys) THEN h
    ELSE IF query_metrics(b, MetricKeys[i]).none THEN h
    ELSE CheckMetricsStopOnFailure(
             CheckMetric(h, MetricKeys[i], query_metrics(b, MetricKeys[i])), b, i + 1)

RECURSIVE CheckMetrics(_, _, _)
CheckMetrics(h, b, i) ==
    IF i > Len(MetricKeys) THEN h
    ELSE CheckMetrics(CheckMetric(h, MetricKeys[i], query_metrics(b, MetricKeys[i])),
                      b, i + 1)

\* Mutant: the health dict outlives the call, so the flag and the concerns of
\* the previous quick check are still in it when the next one starts.
CarriedHealth ==
    [EmptyHealth EXCEPT !.needs_deep_analysis = last_quick.needs_deep_analysis,
                        !.concerns = last_quick.concerns]

\* Lines 266-270: every call starts from a dict of its own.
FreshHealth == EmptyHealth

get_quick_health_check(b) == CheckMetrics(FreshHealth, b, 1)

(***************************************************************************)
(* Outbound calls: one record per call, appended to `calls` in order       *)
(***************************************************************************)
Read(op, by) ==
    [op |-> op, name |-> "", value |-> 0, tags |-> {}, alert_type |-> "",
     ok |-> TRUE, by |-> by]

\* The deep-analysis capability: _call_gemini, or the agent's predict_errors.
DeepAnalysisCall == Read("deep_analysis", "classifier")

(***************************************************************************)
(* Alert Emitter: AlertSender                                              *)
(***************************************************************************)
\* emit_metric posts one point to /v2/series; `ok` is what _make_request returns.
emit_metric(name, value, tags, ok, by) ==
    [op |-> "emit_metric", name |-> name, value |-> value, tags |-> tags,
     alert_type |-> "", ok |-> ok, by |-> by]

\* send_event posts one event to /v1/events.
send_event(alert_type, value, tags, ok, by) ==
    [op |-> "send_event", name |-> "Predicted Service Degradation", value |-> value,
     tags |-> tags, alert_type |-> alert_type, ok |-> ok, by |-> by]

send_insights_generated_event(insight_type, success, ok) ==
    <<emit_metric("llm.insights.generated", IF success THEN 1 ELSE 0,
                  {"insight_type:" \o insight_type,
                   IF success THEN "success:true" ELSE "success:false"},
                  ok, "classifier")>>

\* Mutant: the event is skipped at exactly 0.5 as well.
SendsEventAboveHalf(probability) == probability > EventMinProbability

\* `if probability < 0.5: return True` skips the event.
SendsEvent(probability) == ~(probability < EventMinProbability)

\* Mutant: the band boundaries made exclusive.
AlertTypeStrict(probability) ==
    IF probability > ErrorMinProbability THEN "error"
    ELSE IF probability > WarningMinProbability THEN "warning"
    ELSE "info"

AlertType(probability) ==
    IF probability >= ErrorMinProbability THEN "error"
    ELSE IF probability >= WarningMinProbability THEN "warning"
    ELSE "info"

\* The writes of send_error_prediction, in program order.
send_error_prediction(probability, okMetric, okEvent) ==
    <<emit_metric("llm.prediction.error_probability", probability,
                  {"prediction_type:error"}, okMetric, "classifier")>>
    \o (IF SendsEvent(probability)
        THEN <<send_event(AlertType(probability), probability,
                          {"prediction:error", "confidence"}, okEvent, "classifier")>>
        ELSE <<>>)

\* The keyword parameters send_error_prediction declares, and those
\* predict_errors passes: a keyword outside the signature raises TypeError
\* before the body runs.
SendErrorPredictionParams ==
    {"probability", "cause", "recommended_actions", "affected_services",
     "time_to_issue_hours"}

PredictErrorsKwargs ==
    {"probability", "cause", "recommended_actions", "affected_services",
     "time_to_issue_hours", "full_ai_analysis"}

CallRaisesTypeError(params, kwargs) == ~(kwargs \subseteq params)

(***************************************************************************)
(* Tier 2 of InsightsGenerator: Gemini and its response                    *)
(***************************************************************************)
\* What _call_gemini returns: None (no model, or the API call raised), or the
\* response text, modelled by the JSON it holds.
GeminiDicts ==
    {[kind |-> "dict", has_probability |-> TRUE, probability |-> 85, status |-> "critical"],
     [kind |-> "dict", has_probability |-> TRUE, probability |-> 30, status |-> "healthy"],
     [kind |-> "dict", has_probability |-> TRUE, probability |-> 150, status |-> "degraded"],
     [kind |-> "dict", has_probability |-> FALSE, probability |-> 0, status |-> "warning"]}

Blank(kind) == [kind |-> kind, has_probability |-> FALSE, probability |-> 0, status |-> ""]

GeminiResponses ==
    {Blank(k) : k \in {"None", "empty", "invalid", "null", "emptyobj", "list"}}
        \cup GeminiDicts

NoResponse == Blank("unset")

\* _parse_json_response: None for no text and for text json.loads rejects,
\* else the parsed JSON value (null parses to None).
parse_json_response(text) ==
    IF text.kind \in {"None", "empty"} THEN Blank("None")
    ELSE IF text.kind = "invalid" THEN Blank("None")
    ELSE IF text.kind = "null" THEN Blank("None")
    ELSE text

\* `if result:` None and {} are falsy; a dict with keys and a list with items are truthy.
Truthy(parsed) == parsed.kind \in {"dict", "list"}

NoResult ==
    [returned |-> FALSE, has_probability |-> FALSE, probability |-> 0,
     status |-> "", analysis_type |-> "", error |-> FALSE]

Returned(has_probability, probability, status, analysis_type, error) ==
    [returned |-> TRUE, has_probability |-> has_probability, probability |-> probability,
     status |-> status, analysis_type |-> analysis_type, error |-> error]

\* Mutant: the rule-based result reports probability 0.
HealthyResultZero == Returned(TRUE, 0, "healthy", "rule_based", FALSE)

HealthyResult == Returned(TRUE, RuleBasedProbability, "healthy", "rule_based", FALSE)

\* Mutant: a parse failure falls back to the healthy default.
ParseFailureAsHealthy == Returned(TRUE, RuleBasedProbability, "healthy", "", FALSE)

\* return {"probability": 0, "status": "unknown", "error": "Failed to parse response"}
ParseFailureResult == Returned(TRUE, 0, "unknown", "", TRUE)

\* return {"probability": 0, "status": "error", "error": str(e)}
ExceptionResult == Returned(TRUE, 0, "error", "", TRUE)

\* Mutant: a failed write turns the result into the error result.
AfterWritesFailing(res, oks) == IF FALSE \in oks THEN ExceptionResult ELSE res

\* The booleans emit_metric, send_error_prediction and
\* send_insights_generated_event return are discarded: the result is
\* returned as built, whatever the writes' outcomes `oks` were.
AfterWrites(res, oks) == res

NoAlert == [called |-> FALSE, probability |-> 0]

(***************************************************************************)
(* main.py: the scheduler and its three jobs                               *)
(***************************************************************************)
JobIds == {"error_prediction", "cost_analysis", "health_summary"}

\* The interval of each job, in minutes.
Interval(job_id) ==
    CASE job_id = "error_prediction" -> ERROR_PREDICTION_INTERVAL
      [] job_id = "cost_analysis" -> COST_ANALYSIS_INTERVAL * 60
      [] job_id = "health_summary" -> HEALTH_SUMMARY_INTERVAL

\* add_job(trigger='interval', ...): the first run is one interval after the start.
StartJobs == [job_id \in JobIds |-> Interval(job_id)]

NoRequest == [job_id |-> "", code |-> 0]

SchedulerIdle ==
    /\ jobs = StartJobs
    /\ instances = [job_id \in JobIds |-> 0]
    /\ clock = 0
    /\ http = NoRequest
    /\ skipped = {}

\* The threads that may be serving an invocation at the same time: Flask
\* request threads and a scheduler pool thread.
Invocations == {"request_1", "request_2", "scheduled_job"}

NoThread == [pc |-> "idle", holds |-> "None", read_from |-> {}]

ConcurrentIdle ==
    /\ threads = [t \in Invocations |-> NoThread]
    /\ tool_clients = "None"

NoScore == [fn |-> "", num |-> 0, den |-> 1]

NoChatInput ==
    [fn |-> "", matched |-> {}, length |-> 0, shopping |-> FALSE, garbage |-> FALSE,
     products_found |-> 0, mentioned |-> <<>>, valid |-> {}]

ChatbotIdle ==
    /\ chat_in = NoChatInput
    /\ chat_out = NoScore

\* Request threads of the video generation service (Flask serves each
\* request on a thread of its own).
VideoThreads == {"request_1", "request_2"}

VideoJobIds == {"job_1", "job_2"}

NoChecker == [pc |-> "idle", job_id |-> "", returned |-> ""]

\* VideoGenerator.__init__, line 131: self.jobs = {}
VideoIdle ==
    /\ video_jobs = <<>>
    /\ operations = <<>>
    /\ checkers = [t \in VideoThreads |-> NoChecker]
    /\ settled = <<>>

\* User ids of AddItem, GetCart and EmptyCart requests; the empty string is
\* the value of a request that sets no user_id.
CartUsers == {"", "user_1"}

CartProducts == {"product_1", "product_2"}

\* Threads of the cart service's gRPC pool.
CartThreads == {"worker_1", "worker_2"}

NoAdder == [pc |-> "idle", user_id |-> "", product_id |-> "", quantity |-> 0,
            cart_data |-> <<>>]

\* No request served yet: InMemoryCartStore.__init__ (line 49) starts with
\* an empty dict, and Redis holds no key.
CartStoreNew ==
    /\ carts = <<>>
    /\ redis = <<>>
    /\ cart_added = [user_id \in CartUsers |-> <<>>]
    /\ adders = [t \in CartThreads |-> NoAdder]

CartIdle ==
    /\ cart_kind = "InMemoryCartStore"
    /\ CartStoreNew

NoTracking ==
    [user_id |-> "", events |-> <<>>, before |-> <<>>, returned |-> "",
     product_id |-> "", processed |-> 0]

\* PEAUAgent.__init__, line 127: self.user_behavior_state = {}
PeauIdle ==
    /\ user_behavior_state = <<>>
    /\ peau_out = NoTracking

OtherServicesIdle ==
    /\ SchedulerIdle
    /\ ConcurrentIdle
    /\ ChatbotIdle
    /\ VideoIdle
    /\ CartIdle
    /\ PeauIdle

\* InsightsGenerator.__init__, lines 56-58, with the environment unset.
DefaultThresholds ==
    [error_rate |-> DefaultErrorPredictionThreshold,
     latency_avg |-> DefaultLatencyThresholdSeconds]

NoQuick == [taken |-> FALSE, changed |-> FALSE, needs_deep_analysis |-> FALSE,
            concerns |-> <<>>]

NoTrendInput == [none |-> TRUE, series |-> <<>>]

NoTrend == [by |-> "", trend |-> ""]

\* No invocation is running and no agent has been built.
ServiceIdle ==
    /\ agent = "None"
    /\ entry = "idle"
    /\ force = FALSE
    /\ pc = "idle"
    /\ health = EmptyHealth
    /\ response = NoResponse
    /\ alert = NoAlert
    /\ result = NoResult
    /\ outcome = "none"
    /\ calls = <<>>

Init ==
    /\ backend \in Backends
    /\ ServiceIdle
    /\ thresholds = DefaultThresholds
    /\ last_quick = NoQuick
    /\ trend_in = NoTrendInput
    /\ trend_out = NoTrend
    /\ OtherServicesIdle

(***************************************************************************)
(* GET /insights/quick-check                                               *)
(***************************************************************************)
quick_health_check ==
    /\ entry = "idle"
    /\ entry' = "quick_health_check"
    /\ pc' = "returned"
    /\ health' = get_quick_health_check(backend)
    /\ calls' = <<Read("get_quick_health_check", "classifier")>>
    /\ result' = [NoResult EXCEPT !.returned = TRUE]
    /\ UNCHANGED <<backend, agent, force, response, alert, outcome>>
    /\ UNCHANGED restVars

(***************************************************************************)
(* InsightsGenerator.predict_errors(force_analysis)                        *)
(***************************************************************************)
\* Mutant: force_analysis is ignored.
PredictErrorsStartIgnoringForce(force_analysis) == "level1"

\* `if not force_analysis:` Level 1 runs, else the call goes straight to Level 2.
PredictErrorsStart(force_analysis) == IF force_analysis THEN "level2" ELSE "level1"

Call_predict_errors(force_analysis) ==
    /\ entry = "idle"
    /\ entry' = "predict_errors"
    /\ force' = force_analysis
    /\ pc' = PredictErrorsStart(force_analysis)
    /\ UNCHANGED <<backend, agent, health, response, alert, result, outcome, calls>>
    /\ UNCHANGED restVars

\* Mutant: the rule-based metric is written before the quick check is read.
HealthyPathCallsWriteFirst(okMetric, okGenerated) ==
    <<emit_metric("llm.prediction.error_probability", HealthyResult.probability,
                  {"analysis_type:rule_based"}, okMetric, "classifier"),
      Read("get_quick_health_check", "classifier")>>
        \o send_insights_generated_event("error_prediction", TRUE, okGenerated)

\* Lines 114-133 in program order: the quick check, then (the check having
\* passed) the rule-based metric, then the insights-generated metric.
HealthyPathCalls(okMetric, okGenerated) ==
    <<Read("get_quick_health_check", "classifier"),
      emit_metric("llm.prediction.error_probability", HealthyResult.probability,
                  {"analysis_type:rule_based"}, okMetric, "classifier")>>
        \o send_insights_generated_event("error_prediction", TRUE, okGenerated)

\* Lines 113-136: the quick check, and the rule-based result when it passes.
predict_errors_level1 ==
    /\ entry = "predict_errors"
    /\ pc = "level1"
    /\ LET quick_check == get_quick_health_check(backend)
           read == Append(calls, Read("get_quick_health_check", "classifier"))
       IN  /\ health' = quick_check
           /\ IF ~quick_check.needs_deep_analysis
              THEN \E okMetric, okGenerated \in BOOLEAN :
                      /\ calls' = calls \o HealthyPathCalls(okMetric, okGenerated)
                      /\ result' = AfterWrites(HealthyResult, {okMetric, okGenerated})
                      /\ outcome' = "DONE_HEALTHY"
                      /\ pc' = "returned"
              ELSE /\ calls' = read
                   /\ pc' = "level2"
                   /\ UNCHANGED <<result, outcome>>
    /\ UNCHANGED <<backend, agent, entry, force, response, alert>>
    /\ UNCHANGED restVars

\* Lines 139-231: the detailed reads, the prompt and the Gemini call.
predict_errors_level2 ==
    /\ entry = "predict_errors"
    /\ pc = "level2"
    /\ \E text \in GeminiResponses : response' = text
    /\ calls' = calls \o <<Read("get_error_metrics", "classifier"),
                           Read("get_llm_metrics", "classifier"),
                           DeepAnalysisCall>>
    /\ pc' = "gemini_returned"
    /\ UNCHANGED <<backend, agent, entry, force, health, alert, result, outcome>>
    /\ UNCHANGED restVars

\* Lines 232-272: parse the response, alert, and return.
predict_errors_result ==
    /\ entry = "predict_errors"
    /\ pc = "gemini_returned"
    /\ LET parsed == parse_json_response(response)
           probability == IF parsed.has_probability THEN parsed.probability ELSE 0
       IN  IF ~Truthy(parsed)
           THEN /\ result' = ParseFailureResult
                /\ outcome' = "parse_error"
                /\ UNCHANGED <<calls, alert>>
           ELSE IF parsed.kind # "dict"
                   \/ CallRaisesTypeError(SendErrorPredictionParams, PredictErrorsKwargs)
           THEN \E okGenerated \in BOOLEAN :
                   /\ calls' = calls \o send_insights_generated_event("error_prediction",
                                                                      FALSE, okGenerated)
                   /\ result' = AfterWrites(ExceptionResult, {okGenerated})
                   /\ outcome' = "exception"
                   /\ UNCHANGED alert
           ELSE \E okMetric, okEvent, okGenerated \in BOOLEAN :
                   /\ alert' = [called |-> TRUE, probability |-> probability]
                   /\ calls' = calls
                          \o send_error_prediction(probability, okMetric, okEvent)
                          \o send_insights_generated_event("error_prediction", TRUE,
                                                           okGenerated)
                   /\ result' = AfterWrites(Returned(parsed.has_probability,
                                                      parsed.probability, parsed.status,
                                                      "gemini_deep", FALSE),
                                             {okMetric, okEvent, okGenerated})
                   /\ outcome' = "DONE_PREDICTED"
    /\ pc' = "returned"
    /\ UNCHANGED <<backend, agent, entry, force, health, response>>
    /\ UNCHANGED restVars

(***************************************************************************)
(* AlertSender.send_error_prediction called on its own                     *)
(***************************************************************************)
AlertProbabilities == {0, 10, 49, 50, 55, 59, 60, 79, 80, 85, 100}

Call_send_error_prediction(probability) ==
    /\ entry = "idle"
    /\ entry' = "send_error_prediction"
    /\ alert' = [called |-> TRUE, probability |-> probability]
    /\ \E okMetric, okEvent \in BOOLEAN :
          calls' = send_error_prediction(probability, okMetric, okEvent)
    /\ result' = [NoResult EXCEPT !.returned = TRUE]
    /\ pc' = "returned"
    /\ UNCHANGED <<backend, agent, force, health, response, outcome>>
    /\ UNCHANGED restVars

(***************************************************************************)
(* The agent of main.py: get_agent() and ObservabilityAgent.predict_errors *)
(***************************************************************************)
\* The tool calls the LLM agent may make while it runs, in order.  The task
\* text asks for the quick check first, then the metric, then the event.
AgentScripts ==
    {<<>>,
     <<"get_quick_health_check">>,
     <<"get_quick_health_check", "emit_datadog_metric">>,
     <<"get_quick_health_check", "emit_datadog_metric", "send_datadog_event">>}

AgentProbabilities == {30, 85}

\* One tool call of the agent: the tool functions of observability_agent.py.
AgentTool(tool, probability, ok) ==
    CASE tool = "get_quick_health_check" -> Read("get_quick_health_check", "agent")
      [] tool = "emit_datadog_metric" ->
            emit_metric("llm.prediction.error_probability", probability, {}, ok, "agent")
      [] tool = "send_datadog_event" ->
            send_event("warning", probability, {}, ok, "agent")

AgentToolCalls(script, probability, oks) ==
    [i \in 1..Len(script) |-> AgentTool(script[i], probability, oks[i])]

\* analyze() returns {"status": "success", ...} or, on any exception,
\* {"status": "error", ...}; neither carries a probability.
AgentResult(status) == Returned(FALSE, 0, status, "agent_based", status = "error")

\* get_agent(): `if agent is None: agent = ObservabilityAgent()`.
get_agent ==
    /\ entry \in {"get_error_prediction", "scheduled_error_prediction"}
    /\ pc = "get_agent"
    /\ agent' = "ready"
    /\ pc' = "agent_predict_errors"
    /\ UNCHANGED <<backend, entry, force, health, response, alert, result, outcome, calls>>
    /\ UNCHANGED restVars

\* ObservabilityAgent.__init__ re-raises when vertexai.init fails: the handler
\* lets it propagate (HTTP 500), the scheduled job catches and logs it.
get_agent_raises ==
    /\ entry \in {"get_error_prediction", "scheduled_error_prediction"}
    /\ pc = "get_agent"
    /\ agent = "None"
    /\ IF entry = "get_error_prediction"
       THEN /\ pc' = "raised"
            /\ outcome' = "http_500"
            /\ UNCHANGED result
       ELSE /\ pc' = "returned"
            /\ outcome' = "exception"
            /\ result' = [NoResult EXCEPT !.returned = TRUE]
    /\ UNCHANGED <<backend, agent, entry, force, health, response, alert, calls>>
    /\ UNCHANGED restVars

\* get_agent().predict_errors(): analyze_sync runs the agent to its final response.
agent_predict_errors ==
    /\ entry \in {"get_error_prediction", "scheduled_error_prediction"}
    /\ pc = "agent_predict_errors"
    /\ \E script \in AgentScripts, probability \in AgentProbabilities,
          status \in {"success", "error"} :
          \E oks \in [1..Len(script) -> BOOLEAN] :
             /\ calls' = calls \o <<DeepAnalysisCall>>
                               \o AgentToolCalls(script, probability, oks)
             /\ result' = IF entry = "get_error_prediction"
                          THEN AgentResult(status)
                          ELSE [NoResult EXCEPT !.returned = TRUE]
             /\ outcome' = IF status = "success" THEN "DONE_PREDICTED" ELSE "agent_error"
    /\ pc' = "returned"
    /\ UNCHANGED <<backend, agent, entry, force, health, response, alert>>
    /\ UNCHANGED restVars

(***************************************************************************)
(* GET /insights/errors?force=...                                          *)
(***************************************************************************)
\* `if not force:` the quick check gates the agent.
GetErrorPredictionStart(f) == IF f THEN "get_agent" ELSE "tier1"

Call_get_error_prediction(f) ==
    /\ entry = "idle"
    /\ entry' = "get_error_prediction"
    /\ force' = f
    /\ pc' = GetErrorPredictionStart(f)
    /\ UNCHANGED <<backend, agent, health, response, alert, result, outcome, calls>>
    /\ UNCHANGED restVars

\* Lines 189-202: the rule-based response is returned as it is, nothing is emitted.
get_error_prediction_tier1 ==
    /\ entry = "get_error_prediction"
    /\ pc = "tier1"
    /\ LET quick_check == get_quick_health_check(backend)
       IN  /\ health' = quick_check
           /\ calls' = Append(calls, Read("get_quick_health_check", "classifier"))
           /\ IF ~quick_check.needs_deep_analysis
              THEN /\ result' = HealthyResult
                   /\ outcome' = "DONE_HEALTHY"
                   /\ pc' = "returned"
              ELSE /\ pc' = "get_agent"
                   /\ UNCHANGED <<result, outcome>>
    /\ UNCHANGED <<backend, agent, entry, force, response, alert>>
    /\ UNCHANGED restVars

(***************************************************************************)
(* scheduled_error_prediction (the error_prediction interval job)          *)
(***************************************************************************)
Call_scheduled_error_prediction ==
    /\ entry = "idle"
    /\ entry' = "scheduled_error_prediction"
    /\ force' = FALSE
    /\ pc' = "tier1"
    /\ UNCHANGED <<backend, agent, health, response, alert, result, outcome, calls>>
    /\ UNCHANGED restVars

\* Lines 83-87: a passing quick check ends the job, nothing is returned or emitted.
scheduled_error_prediction_tier1 ==
    /\ entry = "scheduled_error_prediction"
    /\ pc = "tier1"
    /\ LET quick_check == get_quick_health_check(backend)
       IN  /\ health' = quick_check
           /\ calls' = Append(calls, Read("get_quick_health_check", "classifier"))
           /\ IF ~quick_check.needs_deep_analysis
              THEN /\ result' = [NoResult EXCEPT !.returned = TRUE]
                   /\ outcome' = "DONE_HEALTHY"
                   /\ pc' = "returned"
              ELSE /\ pc' = "get_agent"
                   /\ UNCHANGED <<result, outcome>>
    /\ UNCHANGED <<backend, agent, entry, force, response, alert>>
    /\ UNCHANGED restVars

(***************************************************************************)
(* Between invocations                                                     *)
(***************************************************************************)
\* The backend's data changes as the monitored services report.
BackendChanges ==
    /\ entry = "idle"
    /\ \E key \in KeySet :
          \E r \in Responses(key) :
             /\ r # backend[key]
             /\ backend' = [backend EXCEPT ![key] = r]
    /\ UNCHANGED <<agent, entry, force, pc, health, response, alert, result, outcome,
                   calls>>

BackendUpdate == BackendChanges /\ UNCHANGED restVars

\* The invocation has returned to its caller; its locals are gone.
Returns ==
    /\ pc \in {"returned", "raised"}
    /\ entry' = "idle"
    /\ pc' = "idle"
    /\ force' = FALSE
    /\ health' = EmptyHealth
    /\ response' = NoResponse
    /\ alert' = NoAlert
    /\ result' = NoResult
    /\ outcome' = "none"
    /\ calls' = <<>>
    /\ UNCHANGED <<backend, agent>>

Return == Returns /\ UNCHANGED restVars

(***************************************************************************)
(* InsightsGenerator built with thresholds from the environment            *)
(***************************************************************************)
\* float(os.getenv(NAME, default)): the default, or a value set below or
\* above it.
EnvValues(default) == {default - 1, default, default + 1}

\* Lines 57-58: the two thresholds __init__ reads. There is no variable for
\* the hallucination rate.
ThresholdConfigs ==
    {[error_rate |-> e, latency_avg |-> l] :
        e \in EnvValues(DefaultErrorPredictionThreshold),
        l \in EnvValues(DefaultLatencyThresholdSeconds)}

InitThresholds ==
    /\ backend \in Backends
    /\ ServiceIdle
    /\ thresholds \in ThresholdConfigs
    /\ last_quick = NoQuick
    /\ trend_in = NoTrendInput
    /\ trend_out = NoTrend
    /\ OtherServicesIdle

NextThresholds ==
    \/ \E f \in BOOLEAN : Call_predict_errors(f)
    \/ predict_errors_level1
    \/ predict_errors_level2
    \/ predict_errors_result
    \/ Return

SpecThresholds == InitThresholds /\ [][NextThresholds]_vars

(***************************************************************************)
(* Two quick checks in a row                                               *)
(***************************************************************************)
\* GET /insights/quick-check answers (main.py 174-179): the caller keeps the
\* flag and the concerns of the body it received.
ReturnQuickCheck ==
    /\ entry = "quick_health_check"
    /\ Returns
    /\ last_quick' = [taken |-> TRUE, changed |-> FALSE,
                      needs_deep_analysis |-> health.needs_deep_analysis,
                      concerns |-> health.concerns]
    /\ UNCHANGED <<thresholds, trend_in, trend_out, otherServices>>

\* The backend's data changes after the answer the caller keeps.
BackendUpdateNoted ==
    /\ BackendChanges
    /\ last_quick' = [last_quick EXCEPT !.changed = TRUE]
    /\ UNCHANGED <<thresholds, trend_in, trend_out, otherServices>>

NextQuickCheck ==
    \/ quick_health_check
    \/ ReturnQuickCheck
    \/ BackendUpdateNoted

SpecQuickCheck == Init /\ [][NextQuickCheck]_vars

(***************************************************************************)
(* Trend of a value list                                                   *)
(***************************************************************************)
MaxTrendLen == 4

TrendChangePercent == 20

\* Values a series reports; 5, 6 and 7 put a change of exactly 20% and
\* changes above it within reach, -5 and 0 the other signs.
TrendValues == {-5, 0, 5, 6, 7}

TrendPoints ==
    {[none |-> TRUE, value |-> 0]} \cup {[none |-> FALSE, value |-> v] : v \in TrendValues}

TrendPointLists == UNION {[1..n -> TrendPoints] : n \in 0..MaxTrendLen}

TrendResponses ==
    {[none |-> TRUE, series |-> <<>>], [none |-> FALSE, series |-> <<>>]}
        \cup {[none |-> FALSE, series |-> <<pl>>] : pl \in TrendPointLists}

\* `if result and result.get("series")`
HasSeries(r) == ~r.none /\ r.series # <<>>

RECURSIVE NonNullValues(_)
\* values = [p[1] for p in points if p[1] is not None]
NonNullValues(points) ==
    IF points = <<>> THEN <<>>
    ELSE IF Head(points).none THEN NonNullValues(Tail(points))
    ELSE <<Head(points).value>> \o NonNullValues(Tail(points))

RECURSIVE sum(_)
sum(values) == IF values = <<>> THEN 0 ELSE Head(values) + sum(Tail(values))

max(a, b) == IF a >= b THEN a ELSE b

\* Mutant: only the empty list is too short for a trend.
TooShortWhenEmpty(values) == Len(values) < 1

\* `if len(values) < 2`
TooShort(values) == Len(values) < 2

\* Mutant: the second half's sum is divided by the size of the first half.
SecondHalfCountAsFirst(len, mid) == max(mid, 1)

\* max(len(values) - mid, 1)
SecondHalfCount(len, mid) == max(len - mid, 1)

\* Mutant: the zero test on the first half's mean is gone.
FirstHalfNeverZero(s1) == FALSE

\* `if first_half_avg == 0`: a sum over a positive count is 0 exactly when
\* the mean is.
FirstHalfIsZero(s1) == s1 = 0

\* num/den > percent/100, and num/den < -percent/100, for den # 0, without
\* dividing: multiplying by a negative den turns the comparison round.
RatioAbove(num, den, percent) ==
    IF den > 0 THEN 100 * num > percent * den ELSE 100 * num < percent * den

RatioBelow(num, den, percent) ==
    IF den > 0 THEN 100 * num < -percent * den ELSE 100 * num > -percent * den

\* DatadogClient._calculate_trend. With s1, s2 the sums and n1, n2 the
\* divisors of the two halves, change_ratio = (s2/n2 - s1/n1) / (s1/n1)
\* = (s2*n1 - s1*n2) / (s1*n2); a division by 0 raises ZeroDivisionError.
calculate_trend(values) ==
    IF TooShort(values) THEN "stable"
    ELSE LET mid == Len(values) \div 2
             n1 == max(mid, 1)
             n2 == SecondHalfCount(Len(values), mid)
             s1 == sum(SubSeq(values, 1, mid))
             s2 == sum(SubSeq(values, mid + 1, Len(values)))
         IN  IF n1 = 0 \/ n2 = 0 THEN "ZeroDivisionError"
             ELSE IF FirstHalfIsZero(s1)
             THEN IF s2 = 0 THEN "stable" ELSE "increasing"
             ELSE IF s1 = 0 THEN "ZeroDivisionError"
             ELSE IF RatioAbove(s2 * n1 - s1 * n2, s1 * n2, TrendChangePercent)
             THEN "increasing"
             ELSE IF RatioBelow(s2 * n1 - s1 * n2, s1 * n2, TrendChangePercent)
             THEN "decreasing"
             ELSE "stable"

\* observability_agent._calculate_trend: the same steps under other names.
agent_calculate_trend(values) ==
    IF TooShort(values) THEN "stable"
    ELSE LET mid == Len(values) \div 2
             first_count == max(mid, 1)
             second_count == SecondHalfCount(Len(values), mid)
             first_sum == sum(SubSeq(values, 1, mid))
             second_sum == sum(SubSeq(values, mid + 1, Len(values)))
             num == second_sum * first_count - first_sum * second_count
             den == first_sum * second_count
         IN  IF first_count = 0 \/ second_count = 0 THEN "ZeroDivisionError"
             ELSE IF FirstHalfIsZero(first_sum)
             THEN IF second_sum = 0 THEN "stable" ELSE "increasing"
             ELSE IF first_sum = 0 THEN "ZeroDivisionError"
             ELSE IF RatioAbove(num, den, TrendChangePercent) THEN "increasing"
             ELSE IF RatioBelow(num, den, TrendChangePercent) THEN "decreasing"
             ELSE "stable"

\* get_error_metrics, lines 181-194, for one of its queries.
get_error_metrics_trend(r) ==
    IF HasSeries(r) THEN calculate_trend(NonNullValues(r.series[1])) ELSE "stable"

\* The service is idle and its backend answers nothing while trends are taken.
InitTrend ==
    /\ backend = [key \in KeySet |-> [none |-> TRUE, series |-> <<>>]]
    /\ ServiceIdle
    /\ thresholds = DefaultThresholds
    /\ last_quick = NoQuick
    /\ trend_in \in TrendResponses
    /\ trend_out = NoTrend
    /\ OtherServicesIdle

Call_calculate_trend ==
    /\ trend_out = NoTrend
    /\ HasSeries(trend_in)
    /\ trend_out' = [by |-> "DatadogClient._calculate_trend",
                     trend |-> calculate_trend(NonNullValues(trend_in.series[1]))]
    /\ UNCHANGED <<backend, agent, entry, force, pc, health, response, alert, result,
                   outcome, calls, thresholds, last_quick, trend_in>>
    /\ UNCHANGED otherServices

\* query_datadog_metrics, lines 100-113.
Call_agent_calculate_trend ==
    /\ trend_out = NoTrend
    /\ HasSeries(trend_in)
    /\ trend_out' = [by |-> "observability_agent._calculate_trend",
                     trend |-> agent_calculate_trend(NonNullValues(trend_in.series[1]))]
    /\ UNCHANGED <<backend, agent, entry, force, pc, health, response, alert, result,
                   outcome, calls, thresholds, last_quick, trend_in>>
    /\ UNCHANGED otherServices

Call_get_error_metrics ==
    /\ trend_out = NoTrend
    /\ trend_out' = [by |-> "get_error_metrics", trend |-> get_error_metrics_trend(trend_in)]
    /\ UNCHANGED <<backend, agent, entry, force, pc, health, response, alert, result,
                   outcome, calls, thresholds, last_quick, trend_in>>
    /\ UNCHANGED otherServices

NextTrend ==
    \/ Call_calculate_trend
    \/ Call_agent_calculate_trend
    \/ Call_get_error_metrics

SpecTrend == InitTrend /\ [][NextTrend]_vars

(***************************************************************************)
(* The scheduler at work                                                   *)
(***************************************************************************)
besidesScheduler ==
    <<insightsVars, concurrentVars, chatbotVars, videoVars, cartVars, peauVars>>

\* The scheduler thread sleeps until the next run time, so time passes only
\* while no job is due; it is followed in steps of the shortest interval.
Tick ==
    /\ \A job_id \in DOMAIN jobs : jobs[job_id] > clock
    /\ clock + ERROR_PREDICTION_INTERVAL <= MaxClock
    /\ clock' = clock + ERROR_PREDICTION_INTERVAL
    /\ UNCHANGED <<jobs, instances, http, skipped>>
    /\ UNCHANGED besidesScheduler

\* Mutant: the trigger reschedules every job.
ModifyEveryJob(js, job_id, now) == [j \in DOMAIN js |-> now]

\* job.modify(next_run_time=datetime.now())
Modify(js, job_id, now) == [js EXCEPT ![job_id] = now]

\* POST /scheduler/trigger/<job_id>
trigger_job(job_id) ==
    /\ http = NoRequest
    /\ IF job_id \in DOMAIN jobs
       THEN /\ jobs' = Modify(jobs, job_id, clock)
            /\ http' = [job_id |-> job_id, code |-> 200]
       ELSE /\ http' = [job_id |-> job_id, code |-> 404]
            /\ UNCHANGED jobs
    /\ UNCHANGED <<instances, clock, skipped>>
    /\ UNCHANGED besidesScheduler

\* The response has been sent.
trigger_job_returns ==
    /\ http # NoRequest
    /\ http' = NoRequest
    /\ UNCHANGED <<jobs, instances, clock, skipped>>
    /\ UNCHANGED besidesScheduler

\* The scheduler thread wakes and handles every due job: a job with fewer
\* than max_instances runs in progress is submitted to the thread pool; for
\* a job at the limit the run is dropped with a warning. Either way the
\* next run time moves one interval on.
process_jobs ==
    LET due == {job_id \in DOMAIN jobs : jobs[job_id] <= clock}
        full == {job_id \in due : instances[job_id] >= MaxInstances}
    IN  /\ due # {}
        /\ instances' = [job_id \in DOMAIN instances |->
                            IF job_id \in due \ full THEN instances[job_id] + 1
                            ELSE instances[job_id]]
        /\ skipped' = skipped \cup full
        /\ jobs' = [job_id \in DOMAIN jobs |->
                       IF job_id \in due THEN clock + Interval(job_id) ELSE jobs[job_id]]
        /\ UNCHANGED <<clock, http>>
        /\ UNCHANGED besidesScheduler

\* A run of the job returns (each job function catches its exceptions).
job_returns(job_id) ==
    /\ instances[job_id] > 0
    /\ instances' = [instances EXCEPT ![job_id] = @ - 1]
    /\ UNCHANGED <<jobs, clock, http, skipped>>
    /\ UNCHANGED besidesScheduler

\* No request is being served and the backend answers nothing.
InsightsIdle ==
    /\ backend = [key \in KeySet |-> [none |-> TRUE, series |-> <<>>]]
    /\ ServiceIdle
    /\ thresholds = DefaultThresholds
    /\ last_quick = NoQuick
    /\ trend_in = NoTrendInput
    /\ trend_out = NoTrend

InitScheduler ==
    /\ InsightsIdle
    /\ OtherServicesIdle

NextScheduler ==
    \/ Tick
    \/ \E job_id \in JobIds \cup {"unknown_job"} : trigger_job(job_id)
    \/ trigger_job_returns
    \/ process_jobs
    \/ \E job_id \in JobIds : job_returns(job_id)

SpecScheduler == InitScheduler /\ [][NextScheduler]_vars

(***************************************************************************)
(* Invocations side by side: get_agent() and the module-level clients      *)
(***************************************************************************)
besidesConcurrent ==
    <<backend, entry, force, pc, health, response, alert, result, outcome, calls,
      thresholds, last_quick, trend_in, trend_out, schedulerVars, chatbotVars,
      videoVars, cartVars, peauVars>>

\* get_agent(), `if agent is None`: the thread reads the global; an agent it
\* finds there is the one it will return.
get_agent_check(t) ==
    /\ threads[t].pc = "idle"
    /\ threads' = [threads EXCEPT ![t] =
                      IF agent = "None"
                      THEN [@ EXCEPT !.pc = "constructing"]
                      ELSE [pc |-> "has_agent", holds |-> agent,
                            read_from |-> @.read_from \cup {agent}]]
    /\ UNCHANGED <<agent, tool_clients>>
    /\ UNCHANGED besidesConcurrent

\* ObservabilityAgent.__init__: vertexai.init raises and the exception
\* propagates, or the two module-level clients are bound anew.
agent_init(t) ==
    /\ threads[t].pc = "constructing"
    /\ \E ok \in BOOLEAN :
          IF ok
          THEN /\ tool_clients' = t
               /\ threads' = [threads EXCEPT ![t].pc = "constructed"]
          ELSE /\ threads' = [threads EXCEPT ![t].pc = "raised"]
               /\ UNCHANGED tool_clients
    /\ UNCHANGED agent
    /\ UNCHANGED besidesConcurrent

\* `agent = ObservabilityAgent()`, `return agent`: the global is bound to
\* the instance this thread built.
get_agent_assign(t) ==
    /\ threads[t].pc = "constructed"
    /\ agent' = t
    /\ threads' = [threads EXCEPT ![t] = [@ EXCEPT !.pc = "has_agent", !.holds = t]]
    /\ UNCHANGED tool_clients
    /\ UNCHANGED besidesConcurrent

\* predict_errors() on the agent the thread holds: its tools read the
\* module-level clients as bound at that moment.
agent_tools_run(t) ==
    /\ threads[t].pc = "has_agent"
    /\ threads' = [threads EXCEPT ![t] =
                      [@ EXCEPT !.pc = "done",
                                !.read_from = @ \cup {tool_clients}]]
    /\ UNCHANGED <<agent, tool_clients>>
    /\ UNCHANGED besidesConcurrent

\* The invocation is over; the thread takes the next one.
invocation_ends(t) ==
    /\ threads[t].pc \in {"done", "raised"}
    /\ threads' = [threads EXCEPT ![t] = NoThread]
    /\ UNCHANGED <<agent, tool_clients>>
    /\ UNCHANGED besidesConcurrent

InitConcurrent ==
    /\ InsightsIdle
    /\ OtherServicesIdle

NextConcurrent ==
    \/ \E t \in Invocations : get_agent_check(t)
    \/ \E t \in Invocations : agent_init(t)
    \/ \E t \in Invocations : get_agent_assign(t)
    \/ \E t \in Invocations : agent_tools_run(t)
    \/ \E t \in Invocations : invocation_ends(t)

SpecConcurrent == InitConcurrent /\ [][NextConcurrent]_vars

(***************************************************************************)
(* chatbotservice: the scoring functions                                   *)
(***************************************************************************)
\* A text is known by its length and by which of the substrings the
\* functions look for it contains. Scores are in hundredths.
MaxMatched == 2

MaxMentioned == 3

negative_patterns ==
    << <<"i don't know", 20>>, <<"i cannot", 15>>, <<"i'm not able", 20>>,
       <<"error", 15>>, <<"unfortunately", 10>>, <<"i apologize", 10>>,
       <<"i'm sorry, i", 15>>, <<"unable to", 20>>, <<"i don't have access", 20>>,
       <<"i'm not sure", 15>>, <<"that's outside my", 20>>,
       <<"beyond my capabilities", 25>>, <<"can't help with that", 20>>,
       <<"not within my scope", 20>> >>

vague_patterns ==
    << <<"it depends", 15>>, <<"there are many options", 10>>, <<"various factors", 10>>,
       <<"generally speaking", 10>>, <<"in general", 5>>,
       <<"could you be more specific", 20>>, <<"what exactly are you looking for", 15>>,
       <<"can you clarify", 15>> >>

positive_patterns ==
    << <<"here are", 5>>, <<"recommend", 5>>, <<"option", 3>>, <<"feature", 3>>,
       <<"price", 5>>, <<"perfect for", 5>>, <<"great choice", 5>>,
       <<"based on your", 5>>, <<"you might also like", 5>> >>

product_indicators == {"$", "price", "product", "[", "]", "recommend", "categories"}

PatternsOf(list) == {list[i][1] : i \in DOMAIN list}

\* "there are many options" cannot be in a text without "option".
ResponseContains == {<<"there are many options", "option">>}

ResponseFeatures ==
    PatternsOf(negative_patterns) \cup PatternsOf(vague_patterns)
        \cup PatternsOf(positive_patterns) \cup product_indicators \cup {"item"}

RECURSIVE Weigh(_, _, _)
\* for pattern, weight in list: if pattern in text: total += weight
Weigh(list, matched, i) ==
    IF i > Len(list) THEN 0
    ELSE (IF list[i][1] \in matched THEN list[i][2] ELSE 0) + Weigh(list, matched, i + 1)

min(a, b) == IF a <= b THEN a ELSE b

\* Mutant: the score is capped at 1 but not held above 0.
ClampBelowOne(score) == min(100, score)

\* max(0.0, min(1.0, score))
Clamp(score) == max(0, min(100, score))

calculate_quality_score(matched, response_len, is_shopping_query, is_garbage_input, products_found) ==
    LET length_penalty == IF response_len < 30 THEN 40
                          ELSE IF response_len < 100 THEN 20
                          ELSE IF response_len > 3000 THEN 20
                          ELSE 0
        has_product_content == matched \cap product_indicators # {}
        off_topic == IF is_shopping_query /\ ~has_product_content /\ products_found = 0
                     THEN 25 ELSE 0
        mentions_products == "product" \in matched \/ "item" \in matched
        has_product_ids == "[" \in matched /\ "]" \in matched
        unlisted == IF mentions_products /\ ~has_product_ids /\ is_shopping_query
                    THEN 15 ELSE 0
        found_bonus == IF products_found > 0 THEN min(products_found * 5, 20) ELSE 0
        garbage_penalty == IF is_garbage_input /\ response_len > 200 THEN 20 ELSE 0
    IN  Clamp(100 - length_penalty
                  - Weigh(negative_patterns, matched, 1)
                  - Weigh(vague_patterns, matched, 1)
                  - off_topic - unlisted
                  + Weigh(positive_patterns, matched, 1)
                  + found_bonus
                  - garbage_penalty)

high_risk_patterns ==
    {"ignore previous instructions", "ignore all instructions",
     "ignore your instructions", "disregard your instructions", "disregard all",
     "forget your rules", "forget everything", "you are now", "act as if",
     "pretend you are", "pretend to be", "jailbreak", "dan mode", "developer mode",
     "debug mode", "bypass safety", "bypass your", "override your", "unlock your",
     "reveal your system prompt", "show your instructions", "print your prompt"}

medium_risk_patterns ==
    {"system prompt", "reveal your prompt", "show me your instructions",
     "what are your rules", "what is your prompt", "bypass", "override", "admin mode",
     "sudo", "root access", "api key", "secret key", "password", "credential"}

code_patterns ==
    {"drop table", "select *", "select * from", "union select", "; --",
     "' or '1'='1", "' or 1=1", "1=1", "<script>", "</script>", "eval(", "exec(",
     "execute(", "os.system", "subprocess", "import os", "${", "{{"}

\* Pairs <<p, q>> of patterns where every text containing p contains q.
PromptContains ==
    {<<"reveal your system prompt", "system prompt">>, <<"bypass safety", "bypass">>,
     <<"bypass your", "bypass">>, <<"override your", "override">>,
     <<"select * from", "select *">>, <<"' or 1=1", "1=1">>}

InjectionPatterns == high_risk_patterns \cup medium_risk_patterns \cup code_patterns

\* min(1.0, score), the score being 0.5, 0.35 and 0.4 per pattern found.
detect_injection_attempt(matched) ==
    min(100, 50 * Cardinality(matched \cap high_risk_patterns)
                 + 35 * Cardinality(matched \cap medium_risk_patterns)
                 + 40 * Cardinality(matched \cap code_patterns))

\* _calculate_invalid_product_rate: the bracketed ids re.findall returns, in
\* order and with repetitions, against the ids of the catalog.
calculate_invalid_product_rate(mentioned_ids, valid_ids) ==
    IF mentioned_ids = <<>> THEN [num |-> 0, den |-> 1]
    ELSE [num |-> Cardinality({i \in DOMAIN mentioned_ids : mentioned_ids[i] \notin valid_ids}),
          den |-> Len(mentioned_ids)]

RECURSIVE UpTo(_, _)
\* The subsets of U of at most n elements.
UpTo(U, n) ==
    IF n = 0 THEN {{}}
    ELSE LET fewer == UpTo(U, n - 1) IN fewer \cup {m \cup {a} : m \in fewer, a \in U}

\* What a text that contains the patterns of m contains.
Closure(m, contains) == m \cup {c[2] : c \in {d \in contains : d[1] \in m}}

Fits(matched, length) == \A pattern \in matched : Len(pattern) <= length

QualityInputs ==
    {in \in [fn : {"calculate_quality_score"},
             matched : {Closure(m, ResponseContains) :
                           m \in UpTo(ResponseFeatures, MaxMatched) \cup {ResponseFeatures}},
             length : {10, 50, 250, 3500},
             shopping : BOOLEAN,
             garbage : BOOLEAN,
             products_found : {0, 5},
             mentioned : {<<>>},
             valid : {{}}] : Fits(in.matched, in.length)}

InjectionInputs ==
    [fn : {"detect_injection_attempt"},
     matched : {Closure(m, PromptContains) :
                   m \in UpTo(InjectionPatterns, MaxMatched) \cup {InjectionPatterns}},
     length : {3500},
     shopping : {FALSE},
     garbage : {FALSE},
     products_found : {0},
     mentioned : {<<>>},
     valid : {{}}]

ProductIds == {"OLJCESPC7Z", "66VCHSJNUP", "FAKE123"}

RateInputs ==
    [fn : {"_calculate_invalid_product_rate"},
     matched : {{}},
     length : {3500},
     shopping : {FALSE},
     garbage : {FALSE},
     products_found : {0},
     mentioned : UNION {[1..n -> ProductIds] : n \in 0..MaxMentioned},
     valid : SUBSET (ProductIds \ {"FAKE123"})]

besidesChatbot ==
    <<insightsVars, schedulerVars, concurrentVars, videoVars, cartVars, peauVars>>

InitChatbot ==
    /\ InsightsIdle
    /\ SchedulerIdle
    /\ ConcurrentIdle
    /\ VideoIdle
    /\ CartIdle
    /\ PeauIdle
    /\ chat_in \in QualityInputs \cup InjectionInputs \cup RateInputs
    /\ chat_out = NoScore

Call_calculate_quality_score ==
    /\ chat_in.fn = "calculate_quality_score"
    /\ chat_out = NoScore
    /\ chat_out' = [fn |-> chat_in.fn,
                    num |-> calculate_quality_score(chat_in.matched, chat_in.length,
                                                    chat_in.shopping, chat_in.garbage,
                                                    chat_in.products_found),
                    den |-> 100]
    /\ UNCHANGED chat_in
    /\ UNCHANGED besidesChatbot

Call_detect_injection_attempt ==
    /\ chat_in.fn = "detect_injection_attempt"
    /\ chat_out = NoScore
    /\ chat_out' = [fn |-> chat_in.fn, num |-> detect_injection_attempt(chat_in.matched),
                    den |-> 100]
    /\ UNCHANGED chat_in
    /\ UNCHANGED besidesChatbot

Call_calculate_invalid_product_rate ==
    /\ chat_in.fn = "_calculate_invalid_product_rate"
    /\ chat_out = NoScore
    /\ LET rate == calculate_invalid_product_rate(chat_in.mentioned, chat_in.valid)
       IN  chat_out' = [fn |-> chat_in.fn, num |-> rate.num, den |-> rate.den]
    /\ UNCHANGED chat_in
    /\ UNCHANGED besidesChatbot

NextChatbot ==
    \/ Call_calculate_quality_score
    \/ Call_detect_injection_attempt
    \/ Call_calculate_invalid_product_rate

SpecChatbot == InitChatbot /\ [][NextChatbot]_vars

(***************************************************************************)
(* video_generation: VideoGenerator.jobs under concurrent status requests  *)
(***************************************************************************)
besidesVideo ==
    <<insightsVars, schedulerVars, concurrentVars, chatbotVars, cartVars, peauVars>>

\* Every assignment of job['status']; `settled` remembers the first terminal
\* status a job reached.
SetStatus(job_id, status) ==
    /\ video_jobs' = [video_jobs EXCEPT ![job_id].status = status]
    /\ settled' = [settled EXCEPT ![job_id] =
                      IF @ = "" /\ status \in {"completed", "failed"}
                      THEN status ELSE @]

\* start_video_generation, lines 250 and 278-288: a fresh job id is entered
\* with status 'starting' and no operation.
start_video_generation(job_id) ==
    /\ job_id \notin DOMAIN video_jobs
    /\ video_jobs' = video_jobs @@ (job_id :> [status |-> "starting", operation |-> FALSE])
    /\ settled' = settled @@ (job_id :> "")
    /\ UNCHANGED <<operations, checkers>>
    /\ UNCHANGED besidesVideo

\* Lines 290-332: generate_videos returns the operation and the job becomes
\* 'generating', or it raises and the job becomes 'failed'.
generate_videos(job_id, ok) ==
    /\ job_id \in DOMAIN video_jobs
    /\ video_jobs[job_id].status = "starting"
    /\ IF ok
       THEN /\ video_jobs' = [video_jobs EXCEPT ![job_id] =
                                 [status |-> "generating", operation |-> TRUE]]
            /\ operations' = operations @@ (job_id :> "running")
            /\ UNCHANGED settled
       ELSE /\ SetStatus(job_id, "failed")
            /\ UNCHANGED operations
    /\ UNCHANGED checkers
    /\ UNCHANGED besidesVideo

\* The Veo operation finishes on the backend, with videos or without.
operation_done(job_id, outcome_of) ==
    /\ job_id \in DOMAIN operations
    /\ operations[job_id] = "running"
    /\ operations' = [operations EXCEPT ![job_id] = outcome_of]
    /\ UNCHANGED <<video_jobs, checkers, settled>>
    /\ UNCHANGED besidesVideo

\* What a call leaves behind when it returns `status`.
ReturnsStatus(t, status) ==
    checkers' = [checkers EXCEPT ![t].pc = "idle", ![t].returned = status]

\* Lines 384-388: the except branch writes 'failed', whatever the status is.
CheckFails(t) ==
    /\ SetStatus(checkers[t].job_id, "failed")
    /\ ReturnsStatus(t, "failed")

\* check_job_status, lines 336-342: an unknown id returns not_found; a job
\* that is not 'generating' with an operation returns its status; otherwise
\* the thread goes on to ask for the operation.
check_job_status(t, job_id) ==
    /\ checkers[t].pc = "idle"
    /\ IF job_id \notin DOMAIN video_jobs
       THEN checkers' = [checkers EXCEPT ![t] =
                            [pc |-> "idle", job_id |-> job_id, returned |-> "not_found"]]
       ELSE IF video_jobs[job_id].status = "generating" /\ video_jobs[job_id].operation
       THEN checkers' = [checkers EXCEPT ![t] =
                            [pc |-> "operations_get", job_id |-> job_id, returned |-> ""]]
       ELSE checkers' = [checkers EXCEPT ![t] =
                            [pc |-> "idle", job_id |-> job_id,
                             returned |-> video_jobs[job_id].status]]
    /\ UNCHANGED <<video_jobs, operations, settled>>
    /\ UNCHANGED besidesVideo

\* Lines 344-375: client.operations.get raises, or tells that the operation
\* is still running, is done without videos, or is done with videos.
operations_get(t, raises) ==
    /\ checkers[t].pc = "operations_get"
    /\ LET job_id == checkers[t].job_id
       IN  IF raises THEN CheckFails(t)
           ELSE CASE operations[job_id] = "running" ->
                       /\ ReturnsStatus(t, video_jobs[job_id].status)
                       /\ UNCHANGED <<video_jobs, settled>>
                  [] operations[job_id] = "no_videos" ->
                       /\ SetStatus(job_id, "failed")
                       /\ ReturnsStatus(t, "failed")
                  [] operations[job_id] = "videos" ->
                       /\ checkers' = [checkers EXCEPT ![t].pc = "files_download"]
                       /\ UNCHANGED <<video_jobs, settled>>
    /\ UNCHANGED operations
    /\ UNCHANGED besidesVideo

\* Lines 354-366: the video is downloaded and saved and the job becomes
\* 'completed', or the download raises.
files_download(t, raises) ==
    /\ checkers[t].pc = "files_download"
    /\ IF raises THEN CheckFails(t)
       ELSE /\ SetStatus(checkers[t].job_id, "completed")
            /\ ReturnsStatus(t, "completed")
    /\ UNCHANGED operations
    /\ UNCHANGED besidesVideo

InitVideo ==
    /\ InsightsIdle
    /\ OtherServicesIdle

NextVideo ==
    \/ \E job_id \in VideoJobIds : start_video_generation(job_id)
    \/ \E job_id \in VideoJobIds, ok \in BOOLEAN : generate_videos(job_id, ok)
    \/ \E job_id \in VideoJobIds, o \in {"videos", "no_videos"} : operation_done(job_id, o)
    \/ \E t \in VideoThreads, job_id \in VideoJobIds \cup {"job_unknown"} :
          check_job_status(t, job_id)
    \/ \E t \in VideoThreads, raises \in BOOLEAN : operations_get(t, raises)
    \/ \E t \in VideoThreads, raises \in BOOLEAN : files_download(t, raises)

SpecVideo == InitVideo /\ [][NextVideo]_vars

(***************************************************************************)

(* cartservice: InMemoryCartStore and RedisCartStore                       *)
(***************************************************************************)
MaxCartQuantity == 3

besidesCart ==
    <<insightsVars, schedulerVars, concurrentVars, chatbotVars, videoVars, peauVars>>

\* demo_pb2.Cart and demo_pb2.CartItem
Cart(user_id, items) == [user_id |-> user_id, items |-> items]

CartItem(product_id, quantity) == [product_id |-> product_id, quantity |-> quantity]

\* Protocol buffers wire format (proto3): a message is the sequence of its
\* fields that differ from their default, a repeated field one entry per
\* element; an unset string is "" and an unset int32 is 0.
WireField(number, value, default) ==
    IF value = default THEN <<>> ELSE <<[field |-> number, value |-> value]>>

FieldsOf(data, number) == SelectSeq(data, LAMBDA f : f.field = number)

FieldOr(data, number, default) ==
    IF FieldsOf(data, number) = <<>> THEN default
    ELSE FieldsOf(data, number)[Len(FieldsOf(data, number))].value

SerializeItem(item) ==
    WireField(1, item.product_id, "") \o WireField(2, item.quantity, 0)

ParseItem(data) == CartItem(FieldOr(data, 1, ""), FieldOr(data, 2, 0))

\* cart.SerializeToString()
SerializeToString(cart) ==
    WireField(1, cart.user_id, "")
        \o [i \in DOMAIN cart.items |-> [field |-> 2, value |-> SerializeItem(cart.items[i])]]

\* cart.ParseFromString(cart_data)
ParseFromString(cart_data) ==
    Cart(FieldOr(cart_data, 1, ""),
         [i \in DOMAIN FieldsOf(cart_data, 2) |-> ParseItem(FieldsOf(cart_data, 2)[i].value)])

\* The index of the first item of `items` with this product id, 0 if none:
\* `product_id in self._carts[user_id]` (line 58), and the loop of lines
\* 126-130 that breaks on the first match.
RECURSIVE ExistingItemFrom(_, _, _)
ExistingItemFrom(items, product_id, i) ==
    IF i > Len(items) THEN 0
    ELSE IF items[i].product_id = product_id THEN i
    ELSE ExistingItemFrom(items, product_id, i + 1)

\* Mutant: the product is never found in the cart.
ExistingItemNever(items, product_id) == 0

ExistingItem(items, product_id) == ExistingItemFrom(items, product_id, 1)

\* Lines 58-61 and 132-138: the quantity is added to the existing item, or a
\* new item is appended.
WithItem(items, product_id, quantity) ==
    LET i == ExistingItem(items, product_id)
    IN  IF i # 0
        THEN [items EXCEPT ![i].quantity = @ + quantity]
        ELSE Append(items, CartItem(product_id, quantity))

\* InMemoryCartStore.add_item, lines 52-61, the dict after the call.
InMemoryAddItem(store, user_id, product_id, quantity) ==
    LET known == IF user_id \in DOMAIN store THEN store ELSE store @@ (user_id :> <<>>)
    IN  [known EXCEPT ![user_id] = WithItem(@, product_id, quantity)]

\* self._redis.get(user_id): the value of the key, None (here <<>>) without it.
RedisGet(db, key) == IF key \in DOMAIN db THEN db[key] ELSE <<>>

\* self._redis.set(user_id, value)
RedisSet(db, key, value) == [k \in DOMAIN db \cup {key} |-> IF k = key THEN value ELSE db[k]]

\* RedisCartStore.add_item, lines 119-141: what is written for the cart_data
\* that was read; `if cart_data` is false for None and for the empty bytes.
RedisCartWithItem(cart_data, user_id, product_id, quantity) ==
    LET cart == IF cart_data # <<>> THEN ParseFromString(cart_data)
                ELSE Cart(user_id, <<>>)
    IN  SerializeToString(Cart(cart.user_id, WithItem(cart.items, product_id, quantity)))

\* get_cart of the store in use, as the list of its items (lines 63-75 and
\* 151-162).
get_cart(user_id) ==
    IF cart_kind = "InMemoryCartStore"
    THEN IF user_id \in DOMAIN carts THEN carts[user_id] ELSE <<>>
    ELSE IF RedisGet(redis, user_id) # <<>>
         THEN ParseFromString(RedisGet(redis, user_id)).items
         ELSE Cart(user_id, <<>>).items

\* What the user has added of the product since the user's last empty_cart.
AddedSoFar(user_id, product_id) ==
    IF product_id \in DOMAIN cart_added[user_id] THEN cart_added[user_id][product_id] ELSE 0

NoteAdded(user_id, product_id, quantity) ==
    cart_added' = [cart_added EXCEPT ![user_id] =
                      [p \in DOMAIN @ \cup {product_id} |->
                          IF p = product_id THEN AddedSoFar(user_id, p) + quantity
                          ELSE @[p]]]

\* CartService.AddItem served from start to end (cart_server.py 67-83).
add_item(user_id, product_id, quantity) ==
    /\ AddedSoFar(user_id, product_id) + quantity <= MaxCartQuantity
    /\ IF cart_kind = "InMemoryCartStore"
       THEN /\ carts' = InMemoryAddItem(carts, user_id, product_id, quantity)
            /\ UNCHANGED redis
       ELSE /\ redis' = RedisSet(redis, user_id,
                                 RedisCartWithItem(RedisGet(redis, user_id), user_id,
                                                   product_id, quantity))
            /\ UNCHANGED carts
    /\ NoteAdded(user_id, product_id, quantity)
    /\ UNCHANGED <<cart_kind, adders>>
    /\ UNCHANGED besidesCart

\* empty_cart, lines 77-79 and 164-170.
empty_cart(user_id) ==
    /\ IF cart_kind = "InMemoryCartStore"
       THEN /\ carts' = [u \in DOMAIN carts \cup {user_id} |->
                            IF u = user_id THEN <<>> ELSE carts[u]]
            /\ UNCHANGED redis
       ELSE /\ redis' = RedisSet(redis, user_id, SerializeToString(Cart(user_id, <<>>)))
            /\ UNCHANGED carts
    /\ cart_added' = [cart_added EXCEPT ![user_id] = <<>>]
    /\ UNCHANGED <<cart_kind, adders>>
    /\ UNCHANGED besidesCart

\* create_cart_store(), lines 188-206: Redis with REDIS_ADDR set, else in memory.
InitCart ==
    /\ InsightsIdle
    /\ SchedulerIdle
    /\ ConcurrentIdle
    /\ ChatbotIdle
    /\ VideoIdle
    /\ PeauIdle
    /\ cart_kind \in {"InMemoryCartStore", "RedisCartStore"}
    /\ CartStoreNew

Quantities == 0..2

NextCart ==
    \/ \E user_id \in CartUsers, product_id \in CartProducts, quantity \in Quantities :
          add_item(user_id, product_id, quantity)
    \/ \E user_id \in CartUsers : empty_cart(user_id)

SpecCart == InitCart /\ [][NextCart]_vars

(***************************************************************************)
(* cartservice: AddItem calls on the thread pool against RedisCartStore    *)
(***************************************************************************)
MaxPoolCalls == 3

\* The quantities of the AddItem requests taken so far.
RECURSIVE TotalAdded(_)
TotalAdded(pairs) ==
    IF pairs = {} THEN 0
    ELSE LET pair == CHOOSE pair \in pairs : TRUE
         IN  AddedSoFar(pair[1], pair[2]) + TotalAdded(pairs \ {pair})

\* RedisCartStore.add_item up to line 120: a pool thread takes an AddItem
\* request and reads the user's key.
add_item_get(t, user_id, product_id, quantity) ==
    /\ adders[t].pc = "idle"
    /\ TotalAdded(CartUsers \X CartProducts) + quantity <= MaxPoolCalls
    /\ adders' = [adders EXCEPT ![t] =
                     [pc |-> "set", user_id |-> user_id, product_id |-> product_id,
                      quantity |-> quantity, cart_data |-> RedisGet(redis, user_id)]]
    /\ NoteAdded(user_id, product_id, quantity)
    /\ UNCHANGED <<cart_kind, carts, redis>>
    /\ UNCHANGED besidesCart

\* Lines 122-141: the thread changes the cart it read and writes it back.
add_item_set(t) ==
    /\ adders[t].pc = "set"
    /\ redis' = RedisSet(redis, adders[t].user_id,
                         RedisCartWithItem(adders[t].cart_data, adders[t].user_id,
                                           adders[t].product_id, adders[t].quantity))
    /\ adders' = [adders EXCEPT ![t] = NoAdder]
    /\ UNCHANGED <<cart_kind, carts, cart_added>>
    /\ UNCHANGED besidesCart

InitCartPool ==
    /\ InsightsIdle
    /\ SchedulerIdle
    /\ ConcurrentIdle
    /\ ChatbotIdle
    /\ VideoIdle
    /\ PeauIdle
    /\ cart_kind = "RedisCartStore"
    /\ CartStoreNew

NextCartPool ==
    \/ \E t \in CartThreads, user_id \in CartUsers, product_id \in CartProducts,
          quantity \in {1} :
          add_item_get(t, user_id, product_id, quantity)
    \/ \E t \in CartThreads : add_item_set(t)

SpecCartPool == InitCartPool /\ [][NextCartPool]_vars

(***************************************************************************)

(* peau_agent: PEAUAgent.track_user_behavior                               *)
(***************************************************************************)
MaxBatch == 2

\* Line 193: `product_state["views"] >= 5`
ViewThreshold == 5

besidesPeau ==
    <<insightsVars, schedulerVars, concurrentVars, chatbotVars, videoVars, cartVars>>

PeauUsers == {"user_1"}

\* The views of a product that is in the cart are followed up to the threshold.
MaxViews == ViewThreshold

\* The events of a batch: views of two products, the addition of one, an
\* event of another type, and an event without product_id.
PeauEvents ==
    {[type |-> "product_viewed", product_id |-> "product_1"],
     [type |-> "product_viewed", product_id |-> "product_2"],
     [type |-> "item_added_to_cart", product_id |-> "product_1"],
     [type |-> "unknown", product_id |-> "product_2"],
     [type |-> "product_viewed", product_id |-> ""]}

PeauBatches == UNION {[1..n -> PeauEvents] : n \in 0..MaxBatch}

\* Line 186; last_viewed is written and never read, and is left out.
NewProductState == [views |-> 0, added_to_cart |-> FALSE]

\* Mutant: the views alone decide, whether the product is in the cart or not.
ThresholdMetIgnoringCart(views, added_to_cart) == views >= ViewThreshold

\* Line 193
ThresholdMet(views, added_to_cart) == views >= ViewThreshold /\ ~added_to_cart

\* The loop of lines 179-206 from event i on: the user's state when the call
\* returns, what it returns and at which event.
RECURSIVE Track(_, _, _)
Track(user_state, events, i) ==
    IF i > Len(events)
    THEN [state |-> user_state, returned |-> "None", product_id |-> "",
          processed |-> Len(events)]
    ELSE LET product_id == events[i].product_id
             known == IF product_id \in DOMAIN user_state THEN user_state
                      ELSE user_state @@ (product_id :> NewProductState)
         IN  IF product_id = "" THEN Track(user_state, events, i + 1)
             ELSE IF events[i].type = "product_viewed"
             THEN IF ThresholdMet(known[product_id].views + 1,
                                  known[product_id].added_to_cart)
                  THEN [state |-> [known EXCEPT ![product_id].views = 0],
                        returned |-> "hesitation", product_id |-> product_id,
                        processed |-> i]
                  ELSE Track([known EXCEPT ![product_id].views = @ + 1], events, i + 1)
             ELSE IF events[i].type = "item_added_to_cart"
             THEN [state |-> [known EXCEPT ![product_id].added_to_cart = TRUE],
                   returned |-> "recommendations", product_id |-> product_id,
                   processed |-> i]
             ELSE Track(known, events, i + 1)

\* Lines 174-177
UserState(user_id) ==
    IF user_id \in DOMAIN user_behavior_state THEN user_behavior_state[user_id] ELSE <<>>

track_user_behavior(user_id, events) ==
    LET tracked == Track(UserState(user_id), events, 1)
    IN  /\ \A p \in DOMAIN tracked.state : tracked.state[p].views <= MaxViews
        /\ user_behavior_state' =
              [u \in DOMAIN user_behavior_state \cup {user_id} |->
                  IF u = user_id THEN tracked.state ELSE user_behavior_state[u]]
        /\ peau_out' = [user_id |-> user_id, events |-> events,
                        before |-> UserState(user_id), returned |-> tracked.returned,
                        product_id |-> tracked.product_id,
                        processed |-> tracked.processed]
        /\ UNCHANGED besidesPeau

InitPeau ==
    /\ InsightsIdle
    /\ OtherServicesIdle

NextPeau ==
    \E user_id \in PeauUsers, events \in PeauBatches : track_user_behavior(user_id, events)

SpecPeau == InitPeau /\ [][NextPeau]_vars

(***************************************************************************)

(* Vocabulary of the properties                                            *)
(***************************************************************************)
Classifier == {"predict_errors", "get_error_prediction", "scheduled_error_prediction"}

\* The thresholds as the specification states them: 0.02, 3.0 s, 0.02.
StatedThreshold ==
    [error_rate |-> 2, latency_avg |-> 3, hallucination_rate |-> 2]

\* The read of `key` is Unavailable: a failed request, no series, or no points.
Unavailable(key) ==
    \/ backend[key].none
    \/ backend[key].series = <<>>
    \/ backend[key].series[1] = <<>>

\* The latest point of `key` is a number strictly above the stated threshold.
Exceeds(key) ==
    /\ ~Unavailable(key)
    /\ LET pl == backend[key].series[1]
       IN  /\ ~pl[Len(pl)].none
           /\ pl[Len(pl)].value > StatedThreshold[key]

CallsOf(op, by) == {i \in DOMAIN calls : calls[i].op = op /\ calls[i].by = by}

Tier1Ran == CallsOf("get_quick_health_check", "classifier") # {}

ConcernsOf(key) == {i \in DOMAIN health.concerns : health.concerns[i].metric = key}

ProbabilityMetrics ==
    {i \in DOMAIN calls : /\ calls[i].op = "emit_metric"
                          /\ calls[i].name = "llm.prediction.error_probability"}

Events == {i \in DOMAIN calls : calls[i].op = "send_event"}

(***************************************************************************)
(* Properties                                                              *)
(***************************************************************************)
\* C1: a classifier run without force in which no monitored metric exceeds
\* its threshold never invokes the deep-analysis capability: no deep call is
\* made and no Tier 2 position is entered, up to and including the return.
C1_FreePath ==
    (entry \in Classifier /\ ~force /\ \A key \in KeySet : ~Exceeds(key))
        => /\ CallsOf("deep_analysis", "classifier") = {}
           /\ pc \notin {"level2", "gemini_returned", "get_agent", "agent_predict_errors"}
           /\ outcome \in {"none", "DONE_HEALTHY"}

C1_Witness ==
    /\ entry = "get_error_prediction"
    /\ ~force
    /\ pc = "returned"
    /\ \A key \in KeySet : ~Unavailable(key) /\ ~Exceeds(key)
    /\ <<"error_rate", 2>> \in health.metrics
    /\ outcome = "DONE_HEALTHY"

C3_BreachFlagged ==
    Tier1Ran
        => /\ (\E key \in KeySet : Exceeds(key)) => health.needs_deep_analysis
           /\ \A key \in KeySet :
                 Cardinality(ConcernsOf(key)) = (IF Exceeds(key) THEN 1 ELSE 0)
           /\ \A i \in DOMAIN health.concerns :
                 health.concerns[i].text
                     = [error_rate |-> "Error rate elevated",
                        latency_avg |-> "Latency elevated",
                        hallucination_rate |-> "Hallucination rate elevated"]
                          [health.concerns[i].metric]

C3_Witness ==
    /\ Tier1Ran
    /\ Exceeds("error_rate")
    /\ ~Unavailable("latency_avg") /\ ~Exceeds("latency_avg")
    /\ ~Unavailable("hallucination_rate") /\ ~Exceeds("hallucination_rate")
    /\ health.needs_deep_analysis
    /\ Len(health.concerns) = 1
    /\ health.concerns[1].text = "Error rate elevated"

\* C4: an Unavailable metric adds no key to the snapshot and no concern, and
\* needs_deep_analysis is set only by an available metric that breaches; with
\* all three Unavailable the result is false, no concerns, empty snapshot.
C4_UnavailableExcluded ==
    Tier1Ran
        => /\ \A key \in KeySet :
                 Unavailable(key)
                     => /\ \A m \in health.metrics : m[1] # key
                        /\ ConcernsOf(key) = {}
           /\ health.needs_deep_analysis => \E key \in KeySet : Exceeds(key)
           /\ (\A key \in KeySet : Unavailable(key))
                 => /\ ~health.needs_deep_analysis
                    /\ health.concerns = <<>>
                    /\ health.metrics = {}

C4_Witness ==
    /\ entry = "quick_health_check"
    /\ pc = "returned"
    /\ backend["error_rate"].none
    /\ ~backend["latency_avg"].none /\ backend["latency_avg"].series = <<>>
    /\ ~backend["hallucination_rate"].none
    /\ backend["hallucination_rate"].series = << <<>> >>
    /\ health.metrics = {}

\* C5: when Gemini returns nothing, or text that json.loads rejects,
\* predict_errors returns status "unknown" with probability 0, never
\* "healthy", and makes no send_event call.
C5_ParseFailureUnknown ==
    (/\ entry = "predict_errors"
     /\ pc = "returned"
     /\ response.kind \in {"None", "empty", "invalid"})
        => /\ result.status = "unknown"
           /\ result.has_probability /\ result.probability = 0
           /\ result.error
           /\ Events = {}

C5_Witness ==
    /\ entry = "predict_errors"
    /\ pc = "returned"
    /\ response.kind = "invalid"
    /\ CallsOf("deep_analysis", "classifier") # {}
    /\ result.status = "unknown"

\* C6: when Gemini returns a parseable prediction with probability 0.85,
\* predict_errors calls send_event with severity "error", emits the
\* probability metric with value 0.85 under a deep-analysis tag, and returns
\* that prediction.
C6_DeepPredictionAlerts ==
    (/\ entry = "predict_errors"
     /\ pc = "returned"
     /\ response.kind = "dict" /\ response.has_probability
     /\ response.probability = 85)
        => /\ \E i \in Events : calls[i].alert_type = "error"
           /\ \E i \in ProbabilityMetrics :
                 /\ calls[i].value = 85
                 /\ calls[i].tags \cap {"analysis_type:gemini_deep", "prediction_type:error"}
                        # {}
           /\ result.probability = 85
           /\ result.status = response.status

\* C7: send_error_prediction emits the probability metric first on every
\* call, whatever the probability, and calls send_event if and only if the
\* probability is at least 0.5, after the metric.
C7_EventIffHalf ==
    (alert.called /\ pc = "returned")
        => /\ Len(calls) >= 1
           /\ 1 \in ProbabilityMetrics
           /\ calls[1].value = alert.probability
           /\ (Events # {}) <=> (alert.probability >= 50)
           /\ \A i \in Events : i > 1

C7_Witness ==
    /\ entry = "send_error_prediction"
    /\ pc = "returned"
    /\ alert.probability = 50
    /\ Events = {2}
    /\ ProbabilityMetrics = {1}

\* C8: an event of send_error_prediction has alert_type "error" from 0.8,
\* "warning" from 0.6 up to 0.8, "info" from 0.5 up to 0.6; every event has
\* one of the three, and none is sent below 0.5.
C8_SeverityBands ==
    \A i \in Events :
        calls[i].by = "classifier"
            => LET p == calls[i].value
               IN  /\ p = alert.probability
                   /\ p >= 50
                   /\ (p >= 80) <=> (calls[i].alert_type = "error")
                   /\ (60 <= p /\ p < 80) <=> (calls[i].alert_type = "warning")
                   /\ (50 <= p /\ p < 60) <=> (calls[i].alert_type = "info")

C8_Witness ==
    /\ entry = "send_error_prediction"
    /\ alert.probability = 80
    /\ \E i \in Events : calls[i].value = 80 /\ calls[i].alert_type = "error"

\* C9: every result predict_errors returns has a probability within [0,1]
\* and a status among healthy, warning, critical, unknown.
C9_ResultWellFormed ==
    (entry = "predict_errors" /\ pc = "returned")
        => /\ result.has_probability
           /\ result.probability \in 0..100
           /\ result.status \in {"healthy", "warning", "critical", "unknown"}

\* C10: a run of predict_errors or of the GET /insights/errors handler that
\* ends DONE_HEALTHY or DONE_PREDICTED has emitted the probability metric
\* through the Alert Emitter by the time it returns.
C10_EmitsBeforeReturn ==
    (/\ entry \in {"predict_errors", "get_error_prediction"}
     /\ pc = "returned"
     /\ outcome \in {"DONE_HEALTHY", "DONE_PREDICTED"})
        => ProbabilityMetrics # {}

\* C11: when predict_errors is not forced and the quick check reports
\* needs_deep_analysis = false, the call returns status "healthy" with the
\* fixed probability 0.1 and has emitted llm.prediction.error_probability
\* with value 0.1 tagged analysis_type:rule_based.
C11_HealthyRuleBased ==
    (/\ entry = "predict_errors"
     /\ pc = "returned"
     /\ ~force
     /\ Tier1Ran
     /\ ~health.needs_deep_analysis)
        => /\ result.returned
           /\ result.status = "healthy"
           /\ result.has_probability
           /\ result.probability = 10
           /\ \E i \in ProbabilityMetrics :
                 /\ calls[i].value = 10
                 /\ "analysis_type:rule_based" \in calls[i].tags

C11_Witness ==
    /\ entry = "predict_errors"
    /\ pc = "returned"
    /\ ~force
    /\ Tier1Ran
    /\ ~health.needs_deep_analysis
    /\ Unavailable("latency_avg")
    /\ <<"error_rate", 2>> \in health.metrics
    /\ result.status = "healthy"
    /\ \E i \in ProbabilityMetrics : ~calls[i].ok

\* C12: a failed backend write never changes what predict_errors returns.
\* The result is a function of the reads and of the deep-analysis output
\* alone (healthy 0.1 when Tier 1 passes, unknown when the output does not
\* parse to a non-empty value, and otherwise the error result of the except
\* branch, which the rejected send_error_prediction call leads to), the call
\* raises nothing, and each write is attempted exactly once, whether it
\* succeeded or failed.
C12_WritesDoNotDecide ==
    (entry = "predict_errors")
        => /\ pc # "raised"
           /\ pc = "returned"
                 => LET writes == {i \in DOMAIN calls : calls[i].op \in {"emit_metric",
                                                                        "send_event"}}
                        unparsed == response.kind \in {"None", "empty", "invalid", "null",
                                                       "emptyobj"}
                    IN  IF ~force /\ \A key \in KeySet : ~Exceeds(key)
                        THEN /\ result.status = "healthy"
                             /\ result.probability = 10
                             /\ result.analysis_type = "rule_based"
                             /\ Cardinality(writes) = 2
                        ELSE IF unparsed
                        THEN /\ result.status = "unknown"
                             /\ result.probability = 0
                             /\ writes = {}
                        ELSE /\ result.status = "error"
                             /\ result.probability = 0
                             /\ Cardinality(writes) = 1

C12_Witness ==
    /\ entry = "predict_errors"
    /\ pc = "returned"
    /\ ~force
    /\ result.status = "healthy"
    /\ \E i, j \in DOMAIN calls :
          /\ calls[i].name = "llm.prediction.error_probability"
          /\ calls[j].name = "llm.insights.generated"
          /\ ~calls[i].ok
          /\ ~calls[j].ok

\* C13: a failed metrics read is contained. The quick check still evaluates
\* every metric whose read succeeded and returns; GET /insights/quick-check
\* always returns; GET /insights/errors never ends in an error response when
\* no available metric exceeds its threshold (all reads failing included) nor
\* once the deep analysis was invoked, whatever that analysis yields.
C13_ReadFailureContained ==
    /\ Tier1Ran => \A key \in KeySet :
                      ~Unavailable(key) => \E m \in health.metrics : m[1] = key
    /\ entry = "quick_health_check" => pc = "returned" /\ result.returned
    /\ entry = "get_error_prediction"
          => /\ (~force /\ \A key \in KeySet : ~Exceeds(key)) => pc # "raised"
             /\ CallsOf("deep_analysis", "classifier") # {} => pc # "raised"
             /\ pc = "raised" => agent = "None" /\ outcome = "http_500"

C13_Witness ==
    /\ entry = "get_error_prediction"
    /\ pc = "returned"
    /\ ~force
    /\ backend["error_rate"].none
    /\ Exceeds("latency_avg")
    /\ \E m \in health.metrics : m[1] = "hallucination_rate"
    /\ outcome = "agent_error"

\* C14: within one classifier invocation every backend write comes strictly
\* after every read and deep-analysis call the classifier makes: a write of
\* an unforced run follows the quick check, and a write of a run that did
\* not end rule-based healthy follows the deep-analysis call.
C14_WritesAfterDecision ==
    (entry \in Classifier)
        => \A w \in DOMAIN calls :
              calls[w].op \in {"emit_metric", "send_event"}
                 => /\ \A r \in DOMAIN calls :
                          (/\ calls[r].by = "classifier"
                           /\ calls[r].op \notin {"emit_metric", "send_event"}) => r < w
                    /\ ~force => \E r \in CallsOf("get_quick_health_check", "classifier") :
                                    r < w
                    /\ (force \/ health.needs_deep_analysis)
                          => \E r \in CallsOf("deep_analysis", "classifier") : r < w

C14_Witness ==
    /\ entry = "predict_errors"
    /\ pc = "returned"
    /\ ~force
    /\ health.needs_deep_analysis
    /\ Len(calls) = 5
    /\ calls[1].op = "get_quick_health_check"
    /\ calls[4].op = "deep_analysis"
    /\ calls[5].op = "emit_metric"

C16_ThresholdsFromConfig ==
    (entry = "predict_errors" /\ Tier1Ran)
        => \A key \in DOMAIN thresholds :
              ConcernsOf(key) # {}
                 <=> /\ ~Unavailable(key)
                     /\ LET pl == backend[key].series[1]
                        IN  /\ ~pl[Len(pl)].none
                            /\ pl[Len(pl)].value > thresholds[key]

\* The list of numbers the trend was asked for: the non-null values of the
\* pointlist, in order.
GivenValues ==
    IF trend_in.none \/ trend_in.series = <<>> THEN <<>>
    ELSE LET numbers == SelectSeq(trend_in.series[1], LAMBDA p : ~p.none)
         IN  [i \in DOMAIN numbers |-> numbers[i].value]

RECURSIVE Total(_, _, _)
Total(s, lo, hi) == IF lo > hi THEN 0 ELSE s[lo] + Total(s, lo + 1, hi)

FirstCount == Len(GivenValues) \div 2

SecondCount == Len(GivenValues) - FirstCount

FirstTotal == Total(GivenValues, 1, FirstCount)

SecondTotal == Total(GivenValues, FirstCount + 1, Len(GivenValues))

Magnitude(x) == IF x < 0 THEN -x ELSE x

\* The mean of the second half lies above (below) the mean of the first half
\* by more than a fifth of the first mean's magnitude; both sides are
\* multiplied by the two counts, which are positive.
MoreThanFifthAbove ==
    5 * (SecondTotal * FirstCount - FirstTotal * SecondCount)
        > Magnitude(FirstTotal) * SecondCount

MoreThanFifthBelow ==
    5 * (FirstTotal * SecondCount - SecondTotal * FirstCount)
        > Magnitude(FirstTotal) * SecondCount

TrendTaken == trend_out.by # ""

\* C17: for every list of at least two values, of any sign, whose first half
\* does not average 0, the trend is "increasing" when the second half's mean
\* is more than 20% above the first half's and "decreasing" when it is more
\* than 20% below.
C17_TrendFollowsMeans ==
    (TrendTaken /\ Len(GivenValues) >= 2 /\ FirstTotal # 0)
        => /\ MoreThanFifthAbove => trend_out.trend = "increasing"
           /\ MoreThanFifthBelow => trend_out.trend = "decreasing"

\* C18: for every list of at least two values whose first half averages 0
\* the trend is "stable" when the second half averages 0 too and "increasing"
\* when it does not; and no list at all makes the computation divide by 0.
C18_ZeroFirstHalf ==
    TrendTaken
        => /\ trend_out.trend \in {"increasing", "decreasing", "stable"}
           /\ (Len(GivenValues) >= 2 /\ FirstTotal = 0)
                 => trend_out.trend = IF SecondTotal = 0 THEN "stable" ELSE "increasing"

C18_Witness ==
    /\ trend_out.by = "DatadogClient._calculate_trend"
    /\ GivenValues = <<5, -5, 0, -5>>
    /\ trend_out.trend = "increasing"

\* C19: a list of no value or of one value has the trend "stable", from
\* either _calculate_trend and from get_error_metrics, whose series may be
\* missing or hold null points only.
C19_ShortListStable ==
    (TrendTaken /\ Len(GivenValues) <= 1) => trend_out.trend = "stable"

C19_Witness ==
    /\ trend_out.by = "get_error_metrics"
    /\ ~trend_in.none
    /\ trend_in.series # <<>>
    /\ Len(trend_in.series[1]) = 3
    /\ \A i \in 1..3 : trend_in.series[1][i].none
    /\ trend_out.trend = "stable"

\* C20: a list of any length all of whose values are one and the same
\* positive number has the trend "stable".
C20_ConstantStable ==
    (/\ TrendTaken
     /\ \E c \in TrendValues :
           c > 0 /\ \A i \in DOMAIN GivenValues : GivenValues[i] = c)
        => trend_out.trend = "stable"

C20_Witness ==
    /\ trend_out.by = "observability_agent._calculate_trend"
    /\ GivenValues = <<7, 7, 7>>
    /\ trend_out.trend = "stable"

\* C21: every response GET /insights/errors returns, rule-based or deep,
\* carries a status that is one of healthy, warning, critical, unknown or
\* error.
C21_StatusTellsOutcome ==
    (entry = "get_error_prediction" /\ pc = "returned")
        => /\ result.returned
           /\ result.status \in {"healthy", "warning", "critical", "unknown", "error"}

\* C22: the registered jobs are always exactly error_prediction,
\* cost_analysis and health_summary; a trigger for a registered job sets that
\* job's next run time to now and leaves every other job's next run time as
\* it was; a trigger for an unknown id answers 404 and changes no job.
C22_TriggerFrame ==
    /\ [](DOMAIN jobs = {"error_prediction", "cost_analysis", "health_summary"})
    /\ [][(http.code = 0 /\ http'.code # 0)
             => LET job_id == http'.job_id
                IN  IF job_id \in {"error_prediction", "cost_analysis", "health_summary"}
                    THEN /\ http'.code = 200
                         /\ DOMAIN jobs' = DOMAIN jobs
                         /\ jobs'[job_id] = clock
                         /\ \A other \in DOMAIN jobs \ {job_id} :
                               jobs'[other] = jobs[other]
                    ELSE /\ http'.code = 404
                         /\ jobs' = jobs]_vars

C22_Witness ==
    /\ http = [job_id |-> "cost_analysis", code |-> 200]
    /\ clock = 10
    /\ jobs["cost_analysis"] = 10
    /\ jobs["error_prediction"] = 15
    /\ jobs["health_summary"] = 15

\* C23: a run of a job that comes due while the previous run of the same job
\* has not returned is started all the same: the scheduler never drops it.
C23_OverlappingRunsProceed == skipped = {}

\* C24: invocations running at the same time share no mutable state: what an
\* invocation reads of the process-level state (the agent of get_agent(),
\* the module-level clients) was never written by another invocation.
C24_NothingSharedIsWritten ==
    \A t \in DOMAIN threads : threads[t].read_from \subseteq {t}

\* C25: whatever the texts, the product count and the catalog, each of the
\* three scoring functions returns a value between 0 and 1, and the invalid
\* product rate is 0 when the response mentions no bracketed id.
C25_ScoresClamped ==
    (chat_out.fn # "")
        => /\ chat_out.den > 0
           /\ 0 <= chat_out.num
           /\ chat_out.num <= chat_out.den
           /\ (chat_out.fn = "_calculate_invalid_product_rate" /\ chat_in.mentioned = <<>>)
                 => chat_out.num = 0

C25_Witness ==
    /\ chat_out.fn = "calculate_quality_score"
    /\ {"beyond my capabilities", "i don't know", "it depends", "great choice"}
          \subseteq chat_in.matched
    /\ chat_in.length = 3500
    /\ chat_in.garbage
    /\ chat_out.num = 0

\* C26: in every result of the quick check, needs_deep_analysis is true
\* exactly when concerns is non-empty, exactly when some metric of the
\* snapshot holds a value strictly above its threshold; a value equal to its
\* threshold raises no concern, and a latest point whose value is null is
\* recorded in the snapshot as 0 and raises no concern.
C26_FlagConcernsSnapshotAgree ==
    Tier1Ran
        => /\ health.needs_deep_analysis <=> health.concerns # <<>>
           /\ health.concerns # <<>>
                 <=> \E m \in health.metrics : m[2] > StatedThreshold[m[1]]
           /\ \A m \in health.metrics :
                 m[2] = StatedThreshold[m[1]] => ConcernsOf(m[1]) = {}
           /\ \A key \in KeySet :
                 (/\ ~Unavailable(key)
                  /\ backend[key].series[1][Len(backend[key].series[1])].none)
                     => /\ <<key, 0>> \in health.metrics
                        /\ \A m \in health.metrics : m[1] = key => m[2] = 0
                        /\ ConcernsOf(key) = {}

C26_Witness ==
    /\ entry = "quick_health_check"
    /\ pc = "returned"
    /\ health.metrics = {<<"error_rate", 0>>, <<"latency_avg", 3>>,
                         <<"hallucination_rate", 3>>}
    /\ backend["error_rate"].series[1][1].none
    /\ health.needs_deep_analysis
    /\ Len(health.concerns) = 1
    /\ health.concerns[1].metric = "hallucination_rate"

\* C27: completed and failed are terminal: under any interleaving of
\* concurrent check_job_status calls, a job that has become completed or
\* failed keeps that status, and a call for an unknown id creates no job.
C27_TerminalStatusStays ==
    /\ \A job_id \in DOMAIN video_jobs :
          settled[job_id] # "" => video_jobs[job_id].status = settled[job_id]
    /\ "job_unknown" \notin DOMAIN video_jobs

\* The cart get_cart returns for the user lists exactly the products the
\* user added since the last empty_cart, each once, with the summed quantity.
CartReflectsAdded(user_id) ==
    LET items == get_cart(user_id)
    IN  /\ \A i, j \in DOMAIN items :
              items[i].product_id = items[j].product_id => i = j
        /\ {items[i].product_id : i \in DOMAIN items} = DOMAIN cart_added[user_id]
        /\ \A i \in DOMAIN items :
              items[i].quantity = AddedSoFar(user_id, items[i].product_id)

\* C28: no update is lost under concurrency: once the AddItem calls served
\* by the pool threads have returned, the cart stored in Redis reflects every
\* one of them, in every interleaving of their get and set steps.
C28_NoLostUpdate ==
    (\A t \in CartThreads : adders[t].pc = "idle")
        => \A user_id \in CartUsers : CartReflectsAdded(user_id)

\* C29: for both stores, after any sequential series of add_item and
\* empty_cart calls, get_cart(u) lists each product id at most once, with the
\* sum of the quantities added for u and that product since u's last
\* empty_cart, and lists nothing for a user who never added or emptied last;
\* what is recorded for a user changes only by that user's calls, so no call
\* changes another user's cart.
C29_CartIsSumOfAdds ==
    /\ \A user_id \in CartUsers : CartReflectsAdded(user_id)
    /\ \A user_id \in CartUsers : cart_added[user_id] = <<>> => get_cart(user_id) = <<>>

C29_Witness ==
    /\ cart_kind = "RedisCartStore"
    /\ get_cart("") = <<CartItem("product_2", 3), CartItem("product_1", 0)>>
    /\ "user_1" \in DOMAIN redis
    /\ get_cart("user_1") = <<>>

\* The product_viewed events of the product among the first n of the batch.
ViewsIn(events, product_id, n) ==
    Cardinality({i \in 1..n : /\ events[i].type = "product_viewed"
                              /\ events[i].product_id = product_id})

ViewsBefore(product_id) ==
    IF product_id \in DOMAIN peau_out.before THEN peau_out.before[product_id].views ELSE 0

AddedBefore(product_id) ==
    product_id \in DOMAIN peau_out.before /\ peau_out.before[product_id].added_to_cart

\* C30: after every track_user_behavior call the stored view count of a
\* (user, product) not yet added to cart is between 0 and 4; a call returns
\* a hesitation suggestion exactly at the product_viewed event that raises
\* the count to 5, with the count reset to 0 and the later events of the
\* batch without effect, and never for a product recorded as added to cart.
C30_ViewsBelowFive ==
    /\ \A u \in DOMAIN user_behavior_state : \A p \in DOMAIN user_behavior_state[u] :
          ~user_behavior_state[u][p].added_to_cart
              => user_behavior_state[u][p].views \in 0..4
    /\ peau_out.returned = "hesitation"
          => LET now == user_behavior_state[peau_out.user_id]
                 n == peau_out.processed
                 p == peau_out.product_id
             IN  /\ peau_out.events[n] = [type |-> "product_viewed", product_id |-> p]
                 /\ ~AddedBefore(p) /\ ~now[p].added_to_cart
                 /\ ViewsBefore(p) + ViewsIn(peau_out.events, p, n) = 5
                 /\ now[p].views = 0
                 /\ \A q \in DOMAIN now \ {p} :
                       /\ now[q].views = ViewsBefore(q) + ViewsIn(peau_out.events, q, n)
                       /\ now[q].added_to_cart = AddedBefore(q)
    /\ peau_out.returned # "hesitation"
          => \A p \in DOMAIN peau_out.before :
                ~AddedBefore(p)
                    => ViewsBefore(p) + ViewsIn(peau_out.events, p, peau_out.processed) < 5

C30_Witness ==
    /\ peau_out.returned = "hesitation"
    /\ peau_out.product_id = "product_2"
    /\ peau_out.processed = 1
    /\ peau_out.events = <<[type |-> "product_viewed", product_id |-> "product_2"],
                           [type |-> "product_viewed", product_id |-> "product_2"]>>
    /\ AddedBefore("product_1")
    /\ ViewsBefore("product_1") = 5
    /\ user_behavior_state["user_1"]["product_2"].views = 0

Next ==
    \/ quick_health_check
    \/ \E f \in BOOLEAN : Call_predict_errors(f)
    \/ predict_errors_level1
    \/ predict_errors_level2
    \/ predict_errors_result
    \/ \E p \in AlertProbabilities : Call_send_error_prediction(p)
    \/ \E f \in BOOLEAN : Call_get_error_prediction(f)
    \/ get_error_prediction_tier1
    \/ Call_scheduled_error_prediction
    \/ scheduled_error_prediction_tier1
    \/ get_agent
    \/ get_agent_raises
    \/ agent_predict_errors
    \/ BackendUpdate
    \/ Return

Spec == Init /\ [][Next]_vars
====
